---- MODULE Spec2Model ----
(***************************************************************************)
(* NotebookLM automator: the session connection (core/automator.py, with   *)
(* the Chrome process manager of core/browser.py) and the audio job        *)
(* orchestrator (core/audio.py), each driven against an environment: the   *)
(* browser's pages, the studio panel's DOM, the network and the download   *)
(* directory.                                                              *)
(***************************************************************************)
EXTENDS Integers, Sequences, FiniteSets, TLC

VARIABLES
    auto,    \* NotebookLMAutomator's fields
    chrome,  \* ChromeManager's fields
    world,   \* the browser: its pages, and how the session reaches it
    sobs,    \* what the last session operation did (observation only)
    dom,     \* the studio panel of the page the AudioManager drives
    files,   \* the download directory
    pc,      \* position of the audio operation in flight ("idle": none)
    frame,   \* locals of the audio operation in flight
    aobs     \* what the last audio operation returned (observation only)

svars == <<auto, chrome, world, sobs>>
avars == <<dom, files, pc, frame, aobs>>
vars == <<auto, chrome, world, sobs, dom, files, pc, frame, aobs>>

\* ------------------------------------------------------------------ bounds

\* Pages the browser ever opens in one run.
MaxPages == 2

\* Artifacts the studio panel ever lists, and generations ever submitted.
MaxArtifacts == 2

\* Rounds of a polling loop before its deadline has passed.
MaxPolls == 2

\* Sources in one call of add_sources, and source items in the notebook.
MaxSources == 3

\* Confirmation clicks that raise during one call of clear_studio.
MaxFaults == 2

\* Requests the page issues while one interceptor is installed.
MaxRequests == 3

\* ------------------------------------------------------- session: the state

NoPage == 0

\* A page of the browser: "open", "stale" (is_closed() is False but every
\* evaluation raises) or "closed"; url is where it points.
PageStatus == {"open", "stale", "closed"}
PageUrl == {"blank", "target", "other_notebook", "accounts"}

\* Language attributes document.documentElement.lang may hold, as characters;
\* <<>> is the empty attribute.
LangAttrs ==
    { <<>>, <<"h", "e">>, <<"i", "w", "-", "I", "L">>, <<"z", "h", "-", "C", "N">>,
      <<"j", "a">>, <<"e", "n", "-", "U", "S">>, <<"f", "r">> }

\* What reading the attribute gives: a value, None, or an exception.
LangReads ==
    [kind : {"value"}, v : LangAttrs] \cup { [kind |-> "none", v |-> <<>>], [kind |-> "raise", v |-> <<>>] }

startswith(s, p) == Len(s) >= Len(p) /\ SubSeq(s, 1, Len(p)) = p

InitAuto ==
    [ playwright |-> 0, browser |-> 0, page |-> NoPage, lang |-> "en",
      source_manager |-> NoPage, audio_manager |-> NoPage ]

InitChrome == [ chrome_process |-> 0, started_browser |-> FALSE ]

\* The attribute not read.
Unread == [kind |-> "unread", v |-> <<>>]

NoObs ==
    [ op |-> "none", raised |-> FALSE, connectCalls |-> 0, connectFailed |-> FALSE,
      newDriver |-> FALSE, newBrowser |-> FALSE, newPage |-> FALSE,
      attempted |-> {}, terminateCalls |-> 0, evaluated |-> "no",
      failed |-> {}, reused |-> FALSE, navigated |-> FALSE, idleTimeout |-> FALSE,
      overflow |-> FALSE, read |-> Unread, calls |-> <<>>,
      orphaned |-> FALSE, held |-> InitChrome,
      pre |-> InitAuto, preStatus |-> "none" ]

\* A closed page; where it pointed is read by nothing.
ClosedPage == [status |-> "closed", url |-> "blank"]

is_closed(w, p) == w.pages[p].status = "closed"

StatusOf(w, p) == IF p = NoPage THEN "none" ELSE w.pages[p].status

StartObs(name) ==
    [ NoObs EXCEPT !.op = name, !.pre = auto, !.preStatus = StatusOf(world, auto.page) ]

\* ------------------------------------------------- session: ChromeManager

terminate(s) ==
    LET t == [s EXCEPT !.o.terminateCalls = @ + 1]
    IN  IF s.c.chrome_process # 0 /\ s.c.started_browser
        THEN [t EXCEPT !.c = [chrome_process |-> 0, started_browser |-> FALSE]]
        ELSE t

\* er is what ensure_running meets: the debugging endpoint "available"; auto
\* launch "disabled"; "nobinary"; a launch that exposes the port ("launched")
\* or never does ("timeout").
EnsureRunningOutcomes == {"available", "disabled", "nobinary", "launched", "timeout"}

ensure_running(s, er) ==
    CASE er = "available" -> s
      [] er \in {"disabled", "nobinary"} -> [s EXCEPT !.o.raised = TRUE]
      [] er = "launched" ->
            [s EXCEPT !.c = [chrome_process |-> 1, started_browser |-> TRUE]]
      [] er = "timeout" ->
            LET l == [s EXCEPT !.c = [chrome_process |-> 1, started_browser |-> TRUE]]
            IN  [terminate(l) EXCEPT !.o.raised = TRUE]

\* ------------------------------------------------------ session: close()

CloseTargets == {"page", "browser", "playwright"}

\* cf: the close calls that raise. independent = FALSE is close() with one
\* try block around the three calls instead of one try block each.
closeWith(s, cf, independent) ==
    LET tryPage == s.a.page # NoPage
        okPage == ~tryPage \/ "page" \notin cf
        tryBrowser == s.a.browser # 0 /\ (independent \/ okPage)
        okBrowser == ~tryBrowser \/ "browser" \notin cf
        tryDriver == s.a.playwright # 0 /\ (independent \/ (okPage /\ okBrowser))
        att == (IF tryPage THEN {"page"} ELSE {})
               \cup (IF tryBrowser THEN {"browser"} ELSE {})
               \cup (IF tryDriver THEN {"playwright"} ELSE {})
        w1 == IF tryPage /\ "page" \notin cf
              THEN [s.w EXCEPT !.pages[s.a.page] = ClosedPage]
              ELSE s.w
        s1 == [s EXCEPT !.w = w1,
                        !.o.attempted = @ \cup att,
                        !.o.failed = @ \cup (att \cap cf),
                        !.a.page = NoPage, !.a.browser = 0, !.a.playwright = 0,
                        !.a.source_manager = NoPage, !.a.audio_manager = NoPage]
    IN  terminate(s1)

closeChained(s, cf) == closeWith(s, cf, FALSE)

close(s, cf) == closeWith(s, cf, TRUE)

\* ---------------------------------------------------- session: connect()

\* _detect_language; what was read is kept on record. An attribute that is
\* None or empty fails the test of line 289 and leaves self.lang as it was.
detect_language(s, lr) ==
    CASE lr.kind = "raise" -> [s EXCEPT !.a.lang = "en", !.o.read = lr]
      [] lr.kind = "none" \/ (lr.kind = "value" /\ lr.v = <<>>) -> [s EXCEPT !.o.read = lr]
      [] OTHER ->
            [s EXCEPT !.o.read = lr, !.a.lang =
                IF startswith(lr.v, <<"h", "e">>) \/ startswith(lr.v, <<"i", "w">>) THEN "he"
                ELSE IF startswith(lr.v, <<"z", "h">>) THEN "zh"
                ELSE IF startswith(lr.v, <<"j", "a">>) THEN "ja"
                ELSE "en"]

init_managersWith(s, always) ==
    IF always \/ s.a.source_manager = NoPage
    THEN [s EXCEPT !.a.source_manager = s.a.page, !.a.audio_manager = s.a.page]
    ELSE s

\* The managers built on the first connect only.
init_managersOnce(s) == init_managersWith(s, FALSE)

init_managers(s) == init_managersWith(s, TRUE)

\* "notebooklm.google.com" in page.url
IsNotebookUrl(u) == u \in {"target", "other_notebook"}

\* The first page of the default context that shows a notebook, or NoPage.
existing_page(w) ==
    LET c == { p \in 1..Len(w.pages) :
                 w.pages[p].status # "closed" /\ IsNotebookUrl(w.pages[p].url) }
    IN  IF c = {} THEN NoPage ELSE CHOOSE p \in c : \A q \in c : p <= q

\* Where connect() can raise; "none": nowhere.
ConnectFailPoints ==
    { "start", "ensure_running", "connect_over_cdp", "context", "auth", "new_page",
      "viewport", "goto", "load_state" }

Landings == {"target", "accounts_picked", "accounts_stuck"}

\* The inputs of one connect(): where it raises (failAt), what ensure_running
\* meets (er), the language attribute read (lr), where the navigation lands
\* and what the account chooser does (landing), whether the network-idle
\* wait times out (loadState), and which close calls of the teardown raise
\* (cf). fps, lrs and landings are the fail points, attribute reads and
\* landings to draw from.
ConnectInputs(ws, fps, lrs, landings) ==
    [ failAt : {"none"}, er : IF ws THEN {"available"} ELSE {"available", "launched"},
      lr : lrs, landing : landings, loadState : {"idle", "timeout"}, cf : {{}} ]
    \cup
    [ failAt : fps \ {"ensure_running"}, er : {"available"},
      lr : {[kind |-> "none", v |-> <<>>]}, landing : {"target"},
      loadState : {"idle"}, cf : {{}, CloseTargets} ]
    \cup
    [ failAt : IF ws THEN {} ELSE fps \cap {"ensure_running"},
      er : {"disabled", "nobinary", "timeout"},
      lr : {[kind |-> "none", v |-> <<>>]}, landing : {"target"},
      loadState : {"idle"}, cf : {{}, CloseTargets} ]

\* An input for a connect() that is not reached.
NoConnect ==
    [ failAt |-> "none", er |-> "available", lr |-> [kind |-> "none", v |-> <<>>],
      landing |-> "target", loadState |-> "idle", cf |-> {} ]

Fail(s) == [s EXCEPT !.o.raised = TRUE]

\* Lines 71-96: the browser endpoint and its context.
connect_endpoint(s, in) ==
    LET cdp(t) ==
            IF in.failAt = "connect_over_cdp" THEN Fail(t)
            ELSE LET b == [t EXCEPT !.a.browser = 1, !.o.newBrowser = TRUE]
                 IN  IF in.failAt = "context" THEN Fail(b) ELSE b
    IN  IF s.w.ws THEN cdp(s)
        ELSE LET e == ensure_running(s, in.er)
             IN  IF e.o.raised THEN e ELSE cdp(e)

\* Lines 98-147: reuse a notebook page of the context, or open and navigate one.
\* tolerant = FALSE is the network-idle wait without its except clause.
connect_pageWith(s, in, tolerant) ==
    LET existing == IF s.w.ws THEN NoPage ELSE existing_page(s.w)
    IN  IF existing # NoPage
        THEN [s EXCEPT !.a.page = existing, !.o.reused = TRUE]
        ELSE IF in.failAt = "auth" THEN Fail(s)
        ELSE IF in.failAt = "new_page" THEN Fail(s)
        ELSE IF Len(s.w.pages) >= MaxPages THEN [s EXCEPT !.o.overflow = TRUE, !.o.raised = TRUE]
        ELSE
          LET p == Len(s.w.pages) + 1
              n == [s EXCEPT !.w.pages = Append(@, [status |-> "open", url |-> "blank"]),
                             !.a.page = p, !.o.newPage = TRUE]
          IN  IF in.failAt = "viewport" THEN Fail(n)
              ELSE IF in.failAt = "goto" THEN Fail(n)
              ELSE
                LET g == [n EXCEPT !.o.navigated = TRUE,
                                   !.w.pages[p].url =
                                       IF in.landing = "target" THEN "target" ELSE "accounts"]
                    l == [g EXCEPT !.o.idleTimeout = (in.loadState = "timeout")]
                IN  IF in.failAt = "load_state" THEN Fail(g)
                    ELSE IF ~tolerant /\ in.loadState = "timeout" THEN Fail(l)
                    ELSE IF in.landing = "accounts_picked"
                         THEN [l EXCEPT !.w.pages[p].url = "target"]
                         ELSE l

connect_pageIdleFatal(s, in) == connect_pageWith(s, in, FALSE)

connect_page(s, in) == connect_pageWith(s, in, TRUE)

\* Lines 70-151: the try block.
connect_try(s, in) ==
    LET e == connect_endpoint(s, in)
    IN  IF e.o.raised THEN e
        ELSE LET pg == connect_page(e, in)
             IN  IF pg.o.raised THEN pg
                 ELSE init_managers(detect_language(pg, in.lr))

\* guarded = FALSE is connect() without its early return at lines 55-56.
connectWith(s, in, guarded) ==
    LET c == [s EXCEPT !.o.connectCalls = @ + 1]
    IN  IF guarded /\ s.a.page # NoPage /\ ~is_closed(s.w, s.a.page)
        THEN c
        ELSE LET stopped == [c EXCEPT !.a.playwright = 0]
             IN  IF in.failAt = "start"
                 THEN [stopped EXCEPT !.o.raised = TRUE, !.o.connectFailed = TRUE]
                 ELSE LET started == [stopped EXCEPT !.a.playwright = 1, !.o.newDriver = TRUE]
                          r == connect_try(started, in)
                      IN  IF r.o.raised
                          THEN [close(r, in.cf) EXCEPT !.o.connectFailed = TRUE]
                          ELSE r

connectUnguarded(s, in) == connectWith(s, in, FALSE)

connect(s, in) == connectWith(s, in, TRUE)

\* ------------------------------------------- session: ensure_connected()

\* page.evaluate("1+1") raises on a stale page.
evaluate_ok(w, p) == w.pages[p].status = "open"

\* in1 feeds the connect() of line 162, in2 the one of line 167.
ensure_connected(s, in1, in2) ==
    LET first ==
            IF s.a.page = NoPage \/ is_closed(s.w, s.a.page)
            THEN connect(s, in1)
            ELSE IF evaluate_ok(s.w, s.a.page)
                 THEN [s EXCEPT !.o.evaluated = "ok"]
                 ELSE [s EXCEPT !.o.evaluated = "failed", !.o.raised = TRUE]
    IN  IF first.o.raised
        THEN connect([first EXCEPT !.o.raised = FALSE], in2)
        ELSE first

\* ------------------------------------------------------ session: actions

Session(o) == [a |-> auto, c |-> chrome, w |-> world, o |-> o]

Commit(r) ==
    /\ ~r.o.overflow
    /\ auto' = r.a
    /\ chrome' = r.c
    /\ world' = r.w
    /\ sobs' = r.o
    /\ UNCHANGED avars

\* The attribute reads and landings the session actions draw from.
SessionLangReads == { [kind |-> "value", v |-> <<"h", "e">>], [kind |-> "raise", v |-> <<>>] }
SessionLandings == {"target"}
\* One fail point for each stretch of connect() that leaves the same fields set.
SessionFailPoints == {"start", "ensure_running", "connect_over_cdp", "new_page", "goto"}
SessionInputs ==
    ConnectInputs(world.ws, SessionFailPoints, SessionLangReads, SessionLandings)

Connect ==
    \E in \in SessionInputs :
        Commit(connect(Session(StartObs("connect")), in))

\* ensure_connected reaches line 162 / line 167.
ReachesFirst(s) == s.a.page = NoPage \/ is_closed(s.w, s.a.page)
ReachesSecond(s, in1) ==
    IF ReachesFirst(s) THEN connect(s, in1).o.raised ELSE ~evaluate_ok(s.w, s.a.page)

EnsureConnected ==
    LET s == Session(StartObs("ensure_connected"))
    IN  \E in1 \in IF ReachesFirst(s) THEN SessionInputs ELSE {NoConnect} :
            \E in2 \in IF ReachesSecond(s, in1) THEN SessionInputs ELSE {NoConnect} :
                Commit(ensure_connected(s, in1, in2))

Close ==
    \E cf \in SUBSET CloseTargets :
        Commit(close(Session(StartObs("close")), cf))

\* The renderer of a page crashes: the page stays, its evaluations raise.
PageCrash ==
    \E p \in 1..Len(world.pages) :
        /\ world.pages[p].status = "open"
        /\ world' = [world EXCEPT !.pages[p].status = "stale"]
        /\ sobs' = NoObs
        /\ UNCHANGED <<auto, chrome>>
        /\ UNCHANGED avars

\* A page is closed from outside the automator (the user, or a route).
PageClosed ==
    \E p \in 1..Len(world.pages) :
        /\ world.pages[p].status # "closed"
        /\ world' = [world EXCEPT !.pages[p] = ClosedPage]
        /\ sobs' = NoObs
        /\ UNCHANGED <<auto, chrome>>
        /\ UNCHANGED avars

\* The user opens a tab of the local Chrome on another notebook.
OpenTab ==
    /\ ~world.ws
    /\ Len(world.pages) < MaxPages
    /\ world' = [world EXCEPT !.pages = Append(@, [status |-> "open", url |-> "other_notebook"])]
    /\ sobs' = NoObs
    /\ UNCHANGED <<auto, chrome>>
    /\ UNCHANGED avars

\* The audio side at rest, for the specifications that do not move it.
InitAudioIdle ==
    /\ dom = [x |-> 0]
    /\ files = {}
    /\ pc = "idle"
    /\ frame = [x |-> 0]
    /\ aobs = [x |-> 0]

InitSession ==
    /\ auto = InitAuto
    /\ chrome = InitChrome
    /\ world \in [ws : BOOLEAN, pages : {<<>>}]
    /\ sobs = NoObs
    /\ InitAudioIdle

NextSession ==
    \/ Connect
    \/ EnsureConnected
    \/ Close
    \/ PageCrash
    \/ PageClosed
    \/ OpenTab

SpecSession == InitSession /\ [][NextSession]_vars

AllNull(a) ==
    /\ a.page = NoPage
    /\ a.browser = 0
    /\ a.playwright = 0
    /\ a.source_manager = NoPage
    /\ a.audio_manager = NoPage

\* C6: ensure_connected on a stale session (page present, not closed, the
\* liveness evaluation fails) reconnects in full: unless the reconnect itself
\* raises, the page held afterwards is not the stale one and both managers
\* are bound to it.
C6_StaleSessionReconnects ==
    (sobs.op = "ensure_connected" /\ sobs.preStatus = "stale" /\ ~sobs.raised)
        => /\ auto.page # NoPage
           /\ auto.page # sobs.pre.page
           /\ sobs.newPage \/ sobs.reused
           /\ auto.source_manager = auto.page
           /\ auto.audio_manager = auto.page

\* C7: whenever a connect() fails, called directly or through
\* ensure_connected, the error reaches the caller and page, browser, driver
\* and both managers are null afterwards.
C7_FailedConnectTearsDown ==
    (sobs.op \in {"connect", "ensure_connected"} /\ sobs.connectFailed)
        => sobs.raised /\ AllNull(auto)

\* C8: connect() with a non-closed page changes nothing and creates no
\* driver, browser or page; ensure_connected calls connect() when there is no
\* page or the page is closed, and does not call it when the page is open and
\* the liveness evaluation succeeds.
C8_ConnectOnlyWhenNeeded ==
    /\ (sobs.op = "connect" /\ sobs.preStatus \in {"open", "stale"})
        => /\ ~sobs.newDriver /\ ~sobs.newBrowser /\ ~sobs.newPage
           /\ ~sobs.raised
           /\ auto = sobs.pre
    /\ (sobs.op = "ensure_connected" /\ sobs.preStatus \in {"none", "closed"})
        => sobs.connectCalls >= 1
    /\ (sobs.op = "ensure_connected" /\ sobs.preStatus = "open")
        => sobs.connectCalls = 0 /\ sobs.evaluated = "ok" /\ auto = sobs.pre

C8_Witness ==
    /\ sobs.op = "connect"
    /\ sobs.preStatus = "open"
    /\ auto.page # NoPage
    /\ auto.playwright # 0

\* The close calls close() owes to a session: one per resource it holds.
Held(a) ==
    (IF a.page # NoPage THEN {"page"} ELSE {})
    \cup (IF a.browser # 0 THEN {"browser"} ELSE {})
    \cup (IF a.playwright # 0 THEN {"playwright"} ELSE {})

\* C9: close() attempts the page, the browser and the driver each whatever
\* the others do, never raises, leaves page, browser, driver and both
\* managers null and calls the Chrome manager's terminate, from any state.
C9_CloseBestEffort ==
    sobs.op = "close"
        => /\ ~sobs.raised
           /\ sobs.attempted = Held(sobs.pre)
           /\ AllNull(auto)
           /\ sobs.terminateCalls = 1

C9_Witness ==
    /\ sobs.op = "close"
    /\ "page" \in sobs.failed
    /\ {"browser", "playwright"} \subseteq sobs.attempted

\* ------------------------------------------------- audio: job identifiers

Digits == <<"0", "1", "2", "3", "4", "5", "6", "7", "8", "9">>

IsDigit(c) == \E i \in 1..10 : Digits[i] = c

DigitValue(c) == (CHOOSE i \in 1..10 : Digits[i] = c) - 1

RECURSIVE LStrip(_)
LStrip(s) == IF s # <<>> /\ Head(s) = " " THEN LStrip(Tail(s)) ELSE s

RECURSIVE RStrip(_)
RStrip(s) ==
    IF s # <<>> /\ s[Len(s)] = " " THEN RStrip(SubSeq(s, 1, Len(s) - 1)) ELSE s

\* Python's int literal after the sign: digits, with single underscores
\* only between digits.
IntBody(s) ==
    /\ s # <<>>
    /\ IsDigit(s[1]) /\ IsDigit(s[Len(s)])
    /\ \A i \in 1..Len(s) : IsDigit(s[i]) \/ s[i] = "_"
    /\ \A i \in 1..(Len(s) - 1) : ~(s[i] = "_" /\ s[i + 1] = "_")

RECURSIVE DigitsValue(_)
DigitsValue(s) ==
    IF s = <<>> THEN 0
    ELSE LET front == SubSeq(s, 1, Len(s) - 1)
             c == s[Len(s)]
         IN  IF c = "_" THEN DigitsValue(front) ELSE 10 * DigitsValue(front) + DigitValue(c)

\* int(job_id): [ok |-> FALSE] is ValueError.
ParseInt(job) ==
    LET s == RStrip(LStrip(job))
        signed == s # <<>> /\ s[1] \in {"-", "+"}
        body == IF signed THEN Tail(s) ELSE s
    IN  IF IntBody(body)
        THEN [ok |-> TRUE, v |-> IF signed /\ s[1] = "-" THEN 0 - DigitsValue(body)
                                 ELSE DigitsValue(body)]
        ELSE [ok |-> FALSE, v |-> 0]

\* str(count) of a count >= 0.
RECURSIVE DecStr(_)
DecStr(n) ==
    IF n < 10 THEN <<Digits[n + 1]>> ELSE Append(DecStr(n \div 10), Digits[(n % 10) + 1])

\* The job identifiers the callers pass.
JobIds ==
    { <<>>, <<"x">>, <<"1", "x">>, <<"1", ".", "5">>, <<"-">>,
      <<"0">>, <<"-", "1">>, <<"-", "2">>, <<"1">>, <<"2">>, <<"3">>, <<"4">>,
      <<"+", "1">>, <<" ", "2", " ">>, <<"0", "2">>, <<"1", "_", "0">>, <<"1", "2">> }

\* ------------------------------------------------------ audio: the panel

\* What an artifact item shows: the markers in its inner text and whether
\* its play icon is visible.
ItemLooks ==
    { [text |-> {"sync"}, icon |-> FALSE],
      [text |-> {"Generating"}, icon |-> FALSE],
      [text |-> {"play_arrow"}, icon |-> TRUE],
      [text |-> {}, icon |-> TRUE],
      [text |-> {"error"}, icon |-> FALSE],
      [text |-> {}, icon |-> FALSE] }

GeneratingLook == [text |-> {"sync"}, icon |-> FALSE]
SettledLooks == ItemLooks \ { GeneratingLook, [text |-> {"Generating"}, icon |-> FALSE] }

\* No element: what a locator that matches nothing stands for.
NoItem == 0

\* The children of <artifact-library>: none while the panel is not shown.
Children(d) == IF d.library THEN d.artifacts ELSE <<>>

\* children.nth(index): Playwright counts from 0 and takes -1 as the last
\* element; any other index matches nothing.
nth(items, index) ==
    IF index >= 0 /\ index < Len(items) THEN index + 1
    ELSE IF index = -1 /\ Len(items) > 0 THEN Len(items)
    ELSE NoItem

\* The page calls of an audio operation that can raise; "none": none does.
AudioFailPoints == {"none", "panel", "count", "text", "title", "icon", "click", "route", "wait"}

\* _ensure_studio_tab: [d, raised, via, pressed]. d.tabs says which controls
\* of the Studio panel are visible: the tab strip's ("strip"), a plain text
\* ("text"), both ("both") or none ("none"; "full": the layout without
\* tabs). pressed lists the controls clicked, via is the first of them.
\* returns = FALSE is the function without its return at line 38.
ensure_studio_tabWith(d, fail, returns) ==
    LET strip == d.tabs \in {"strip", "both"}
        text == d.tabs \in {"text", "both"}
        pressed == IF strip
                   THEN (IF ~returns /\ text THEN <<"strip", "text">> ELSE <<"strip">>)
                   ELSE IF text THEN <<"text">> ELSE <<>>
    IN  IF fail = "panel" THEN [d |-> d, raised |-> TRUE, via |-> "none", pressed |-> <<>>]
        ELSE IF d.library THEN [d |-> d, raised |-> FALSE, via |-> "none", pressed |-> <<>>]
        ELSE IF pressed # <<>>
             THEN [d |-> [d EXCEPT !.library = TRUE], raised |-> FALSE, via |-> pressed[1],
                   pressed |-> pressed]
             ELSE [d |-> d, raised |-> FALSE, via |-> "none", pressed |-> <<>>]

ensure_studio_tabFallsThrough(d, fail) == ensure_studio_tabWith(d, fail, FALSE)

ensure_studio_tab(d, fail) == ensure_studio_tabWith(d, fail, TRUE)

\* ---------------------------------------------------- texts of the page

\* Python's None, where a dict has no such key.
None == "None"

\* dict.get(key, default)
get(source, key, default) ==
    IF key \in DOMAIN source THEN source[key] ELSE default

\* selectors.py: the texts of the page's controls by key and language. A
\* text written in Hebrew or Chinese is stood for by its language and its
\* English wording; texts that are the same in the source are the same here.
SELECTORS_BY_KEY ==
    [
      add_source_button |->
          [en |-> "Add sources", he |-> "he:add sources", zh |-> "zh:add sources"],
      source_type_website |->
          [en |-> "Website", he |-> "he:website", zh |-> "zh:website"],
      source_type_youtube |->
          [en |-> "YouTube", he |-> "YouTube", zh |-> "YouTube"],
      source_type_text |->
          [en |-> "Copied text", he |-> "he:copied text", zh |-> "zh:copied text"],
      insert_button |->
          [en |-> "Insert", he |-> "he:insert", zh |-> "zh:insert"],
      generate_button |->
          [en |-> "Generate", he |-> "he:generate", zh |-> "zh:generate"],
      prompt_textarea_placeholder |->
          [en |-> "Things to try", he |-> "he:things to try", zh |-> "zh:things to try"],
      url_input_placeholder |->
          [en |-> "Paste URLs*", he |-> "he:paste urls*", zh |-> "zh:paste urls*"],
      more_button |->
          [en |-> "More", he |-> "he:more", zh |-> "zh:more"],
      delete_menu_item |->
          [en |-> "Delete", he |-> "he:delete", zh |-> "zh:delete"],
      download_menu_item |->
          [en |-> "Download", he |-> "he:download", zh |-> "zh:download"],
      confirm_delete_button |->
          [en |-> "Delete", he |-> "he:delete", zh |-> "zh:delete"],
      play_arrow_button |->
          [en |-> "Play", he |-> "he:play", zh |-> "zh:play"],
      close_audio_player_button |->
          [en |-> "Close audio player", he |-> "he:close audio player", zh |-> "zh:close audio player"],
      error_text |->
          [en |-> "Error", he |-> "he:error", zh |-> "zh:error"],
      generating_status_text |->
          [en |-> "Generating", he |-> "he:generating", zh |-> "zh:generating"],
      delete_source_menu_item |->
          [en |-> "Remove source", he |-> "he:remove source", zh |-> "zh:remove source"],
      deep_dive_radio_button |->
          [en |-> "Deep Dive", he |-> "he:deep dive", zh |-> "zh:deep dive"],
      summary_radio_button |->
          [en |-> "Summary", he |-> "he:summary", zh |-> "zh:summary"],
      critique_radio_button |->
          [en |-> "Critique", he |-> "he:critique", zh |-> "zh:critique"],
      debate_radio_button |->
          [en |-> "Debate", he |-> "he:debate", zh |-> "zh:debate"],
      duration_short |->
          [en |-> "Short", he |-> "he:short", zh |-> "zh:short"],
      duration_default |->
          [en |-> "Default", he |-> "he:default", zh |-> "zh:default"],
      studio_tab |->
          [en |-> "Studio", he |-> "he:studio", zh |-> "Studio"],
      sources_tab |->
          [en |-> "Sources", he |-> "he:sources", zh |-> "zh:sources"] ]

DEFAULT_LANGUAGE == "en"

LANGUAGE_ALIASES == [iw |-> "he"]

\* _build_language_map: the per-key store turned into a per-language store.
build_language_map(selectors_by_key) ==
    LET langs == UNION { DOMAIN selectors_by_key[key] : key \in DOMAIN selectors_by_key }
    IN  [ lang \in langs |->
            [ key \in { k \in DOMAIN selectors_by_key : lang \in DOMAIN selectors_by_key[k] }
                |-> selectors_by_key[key][lang] ] ]

LANGUAGE_MAP == build_language_map(SELECTORS_BY_KEY)

\* No alias is applied.
normalize_languageIdentity(language) == language

normalize_language(language) == get(LANGUAGE_ALIASES, language, language)

\* Lines 74-78. None is returned for a key English does not have either.
get_selector_by_language(language, key) ==
    LET normalized == normalize_language(language)
        lang_map == IF normalized \in DOMAIN LANGUAGE_MAP
                       /\ DOMAIN LANGUAGE_MAP[normalized] # {}
                    THEN LANGUAGE_MAP[normalized]
                    ELSE LANGUAGE_MAP[DEFAULT_LANGUAGE]
    IN  get(lang_map, key, get(LANGUAGE_MAP[DEFAULT_LANGUAGE], key, None))

\* ---------------------------------------------------- audio: get_status

Unknown(d, msg) ==
    [d |-> d, raised |-> FALSE, status |-> "unknown", error |-> msg, item |-> NoItem,
     title |-> "none"]

Raised(d) ==
    [d |-> d, raised |-> TRUE, status |-> "none", error |-> "", item |-> NoItem,
     title |-> "none"]

\* str.lower(), word by word: the words written in Hebrew or Chinese have no
\* case.
lower_word(word) ==
    IF word \in {"Error", "ERROR"} THEN "error"
    ELSE IF word = "Generating" THEN "generating"
    ELSE IF word = "Sync" THEN "sync"
    ELSE word

lower(text) == { lower_word(word) : word \in text }

\* The tests made in the order completed, generating, failed.
classifyPlayFirst(look, lang) ==
    IF "play_arrow" \in look.text \/ look.icon THEN "completed"
    ELSE IF "sync" \in look.text
            \/ get_selector_by_language(lang, "generating_status_text") \in look.text
         THEN "generating"
    ELSE IF "error" \in lower(look.text)
            \/ get_selector_by_language(lang, "error_text") \in lower(look.text)
         THEN "failed"
    ELSE "unknown"

\* Lines 208-221, on the item's look: the words of its inner text and
\* whether its play icon is visible.
classify(look, lang) ==
    IF "sync" \in look.text
       \/ get_selector_by_language(lang, "generating_status_text") \in look.text
    THEN "generating"
    ELSE IF "play_arrow" \in look.text \/ look.icon THEN "completed"
    ELSE IF "error" \in lower(look.text)
            \/ get_selector_by_language(lang, "error_text") \in lower(look.text)
         THEN "failed"
    ELSE "unknown"

\* The play icon's visibility is asked (line 212) only past the first two tests.
AsksIcon(look, lang) ==
    /\ ~("sync" \in look.text
         \/ get_selector_by_language(lang, "generating_status_text") \in look.text)
    /\ "play_arrow" \notin look.text

get_status(d0, job, fail) ==
    LET tab == ensure_studio_tab(d0, fail)
        d == tab.d
        parsed == ParseInt(job)
        index == parsed.v - 1
        items == Children(d)
        count == Len(items)
        at == nth(items, index)
    IN  IF tab.raised THEN Raised(d)
        ELSE IF ~parsed.ok THEN Unknown(d, "Invalid job_id format")
        ELSE IF fail = "count" THEN Raised(d)
        ELSE IF count <= index THEN Unknown(d, "Job ID not found")
        ELSE IF at = NoItem \/ fail = "text" THEN Raised(d)
        ELSE IF fail = "icon" /\ AsksIcon(items[at].look, auto.lang) THEN Raised(d)
        ELSE [d |-> d, raised |-> FALSE, status |-> classify(items[at].look, auto.lang),
              error |-> "",
              item |-> items[at].id,
              title |-> IF fail = "title" THEN "none" ELSE "title"]

\* ------------------------------------------------------ audio: generate

\* What generate meets, option by option. edit: the pencil is found as an
\* icon, as a button, or not at all. style: unset, its radio clicked, or its
\* radio missing. language: unset, the selector hidden, the option picked,
\* or the option not listed. duration: unset, no localized text, its toggle
\* clicked, or its toggle missing. prompt: unset, filled, or no textarea.
\* button: the submit control found by name or as the last button.
GenerateInputs(edits, styles, languages, durations, prompts, buttons, fails) ==
    [ edit : edits, style : styles, language : languages, duration : durations,
      prompt : prompts, button : buttons, fail : fails ]

\* models.py: the styles the API accepts.
AudioStyle == {"summary", "deep_dive", "criticism", "debate"}

\* f"{style}_radio_button"
radio_key(style) == style \o "_radio_button"

\* :has-text() on the labels of the dialog's radios, none of which is part
\* of another.
has_text(label, text) == label = text

\* Lines 75-85, the lookup: what generate meets for the style asked, None
\* for none, in a dialog whose radios bear the labels radios. A text that is
\* None is looked for as 'None'.
style_control(style, lang, radios) ==
    IF style = None THEN "unset"
    ELSE LET style_text == get_selector_by_language(lang, radio_key(style))
         IN  IF \E label \in radios : has_text(label, style_text) THEN "clicked"
             ELSE "missing"

\* Lines 87-98, the lookup: what generate meets for the language asked, None
\* for none, with the selector visible or not and the options it renders.
language_control(language, trigger, options) ==
    IF language = None THEN "unset"
    ELSE IF ~trigger THEN "hidden"
    ELSE IF \E label \in options : has_text(label, language) THEN "picked"
    ELSE "not_listed"

\* Lines 100-110, the lookup: what generate meets for the duration asked,
\* None for none, in a dialog whose toggles bear the labels toggles.
duration_control(duration, lang, toggles) ==
    IF duration = None THEN "unset"
    ELSE LET duration_text == get_selector_by_language(lang, "duration_" \o duration)
         IN  IF duration_text = None THEN "notext"
             ELSE IF \E label \in toggles : has_text(label, duration_text) THEN "clicked"
             ELSE "missing"

\* Lines 55-131: up to and including the submit click. [d, raised, created,
\* esc, warned]. hard = FALSE is a missing style radio skipped as a missing
\* duration toggle is; skips = FALSE is a language not listed or a missing
\* duration toggle raising as a missing style radio does.
generate_submitWith(d0, in, hard, skips) ==
    LET tab == ensure_studio_tab(d0, in.fail)
        d == tab.d
        none == [d |-> d, raised |-> TRUE, created |-> NoItem, esc |-> FALSE,
                 warned |-> FALSE]
        opened == [d EXCEPT !.dialog = TRUE]
        g == d.nextId
    IN  IF tab.raised THEN none
        ELSE IF in.edit = "missing" THEN none
        ELSE IF in.fail = "dialog" THEN none
        ELSE IF hard /\ in.style = "missing" THEN [none EXCEPT !.d = opened]
        ELSE IF in.language \in {"picked", "not_listed"} /\ in.fail = "options"
             THEN [none EXCEPT !.d = opened]
        ELSE IF ~skips /\ (in.language = "not_listed" \/ in.duration = "missing")
             THEN [none EXCEPT !.d = opened]
        ELSE IF in.fail = "click"
             THEN [none EXCEPT !.d = opened, !.esc = (in.language = "not_listed"),
                               !.warned = (in.duration = "missing")]
        ELSE [ d |-> [opened EXCEPT !.pending = @ \cup {g}, !.nextId = g + 1],
               raised |-> FALSE, created |-> g, esc |-> (in.language = "not_listed"),
               warned |-> (in.duration = "missing") ]

generate_submitSoftStyle(d0, in) == generate_submitWith(d0, in, FALSE, TRUE)

generate_submitHardOptions(d0, in) == generate_submitWith(d0, in, TRUE, FALSE)

generate_submit(d0, in) == generate_submitWith(d0, in, TRUE, TRUE)

\* The count as it stood before the submit click (the frame's early read).
read_countBeforeClick(d, fr) == fr.early

\* Lines 142-143: the count the job id is made of. fr is the call's frame.
read_count(d, fr) == d.containers

\* ------------------------------------------------- audio: the environment

InitDom ==
    [ tabs : {"full", "strip", "text", "none"}, library : {TRUE}, artifacts : {<<>>},
      containers : {0}, routes : {0}, dialog : {FALSE}, player : {FALSE},
      pending : {{}}, nextId : {1}, saveTo : {"unset"},
      sourceDialog : {FALSE}, sourceItems : {0} ]

Idle == [op |-> "none"]

NoAudioObs ==
    [ op |-> "none", job |-> <<>>, raised |-> FALSE, status |-> "none",
      error |-> "", item |-> NoItem, result |-> <<>>, created |-> NoItem, early |-> 0,
      bare |-> FALSE, injected |-> FALSE, url |-> "none", file |-> <<>>,
      old |-> FALSE, size |-> 0, removed |-> {}, sources |-> <<>>,
      trips |-> <<>>, thrown |-> <<>>, log |-> <<>>, count |-> 0, success |-> FALSE,
      attempts |-> 0, done |-> 0, stop |-> "none", clicked |-> {}, routed |-> FALSE,
      listed |-> FALSE, language |-> "", key |-> "", text |-> "",
      style |-> "", control |-> "", radios |-> {},
      present |-> FALSE, pressed |-> <<>>, same |-> FALSE,
      code |-> 0, calls |-> <<>>, captured |-> "none", watched |-> "", saved |-> "",
      option |-> "", toggle |-> "", esc |-> FALSE, warned |-> FALSE,
      lead |-> <<>>, clear |-> FALSE ]

\* The options of a generate call that are not on record.
NoOptions == [option |-> "", toggle |-> "", esc |-> FALSE, warned |-> FALSE]

InitAudio ==
    /\ dom \in InitDom
    /\ files = {}
    /\ pc = "idle"
    /\ frame = Idle
    /\ aobs = NoAudioObs

InitSessionIdle ==
    /\ auto = InitAuto
    /\ chrome = InitChrome
    /\ world = [ws |-> FALSE, pages |-> <<>>]
    /\ sobs = NoObs

\* The environment moved: what the last operation returned describes the
\* panel no longer.
Stale == NoAudioObs

\* A submitted generation shows up as the newest item of the list.
Materialize ==
    \E g \in dom.pending :
        /\ dom' = [dom EXCEPT !.artifacts = Append(@, [id |-> g, look |-> GeneratingLook]),
                              !.pending = @ \ {g}]
        /\ aobs' = Stale
        /\ UNCHANGED <<files, pc, frame>>
        /\ UNCHANGED svars

\* An artifact somebody else asked for shows up.
ForeignArtifact ==
    /\ dom.nextId <= MaxArtifacts
    /\ dom' = [dom EXCEPT !.artifacts = Append(@, [id |-> dom.nextId, look |-> GeneratingLook]),
                          !.nextId = @ + 1]
    /\ aobs' = Stale
    /\ UNCHANGED <<files, pc, frame>>
    /\ UNCHANGED svars

\* A generation ends: the item shows its outcome.
Progress ==
    \E i \in 1..Len(dom.artifacts) : \E look \in SettledLooks :
        /\ dom.artifacts[i].look = GeneratingLook
        /\ dom' = [dom EXCEPT !.artifacts[i].look = look]
        /\ aobs' = Stale
        /\ UNCHANGED <<files, pc, frame>>
        /\ UNCHANGED svars

RemoveAt(s, i) == SubSeq(s, 1, i - 1) \o SubSeq(s, i + 1, Len(s))

\* An artifact is deleted from the list.
ArtifactRemoved ==
    \E i \in 1..Len(dom.artifacts) :
        /\ dom' = [dom EXCEPT !.artifacts = RemoveAt(@, i)]
        /\ aobs' = Stale
        /\ UNCHANGED <<files, pc, frame>>
        /\ UNCHANGED svars

\* The numbers of .artifact-library-container elements a render may leave.
ContainerCounts == 0..MaxArtifacts \cup {12}

\* The page renders another number of .artifact-library-container elements.
ContainerRender ==
    \E n \in ContainerCounts :
        /\ n # dom.containers
        /\ dom' = [dom EXCEPT !.containers = n]
        /\ aobs' = Stale
        /\ UNCHANGED <<files, pc, frame>>
        /\ UNCHANGED svars

\* In the tabbed layout another panel is brought to the front.
TabAway ==
    /\ dom.tabs # "full"
    /\ dom.library
    /\ dom' = [dom EXCEPT !.library = FALSE]
    /\ aobs' = Stale
    /\ UNCHANGED <<files, pc, frame>>
    /\ UNCHANGED svars

\* ------------------------------------------------ audio: status actions

\* The job identifiers with the page call that fails, as the get_status
\* action draws them: every identifier with no failure, and each failure on
\* an unparsable, a listed and an unlisted identifier.
StatusCases ==
    { <<job, "none">> : job \in JobIds }
    \cup ({ <<"x">>, <<"1">>, <<"4">> } \X {"panel", "count", "text", "title", "icon"})

GetStatus ==
    /\ pc = "idle"
    /\ \E in \in StatusCases :
        LET job == in[1]
            fail == in[2]
            r == get_status(dom, job, fail)
        IN  /\ dom' = r.d
            /\ aobs' = [NoAudioObs EXCEPT !.op = "get_status", !.job = job,
                            !.raised = r.raised, !.status = r.status, !.error = r.error,
                            !.item = r.item, !.injected = (fail # "none")]
    /\ UNCHANGED <<files, pc, frame>>
    /\ UNCHANGED svars

NextStatus ==
    \/ GetStatus
    \/ ForeignArtifact
    \/ Progress
    \/ ArtifactRemoved
    \/ TabAway

InitStatus == InitAudio /\ InitSessionIdle

SpecStatus == InitStatus /\ [][NextStatus]_vars

\* C1: for a job_id that is not a number, or a number outside 1..N (N the
\* number of artifact items), get_status returns 'unknown' with a non-empty
\* message and reports on no artifact (no page call failing).
C1_UnknownWhenOutOfRange ==
    LET parsed == ParseInt(aobs.job)
    IN  (aobs.op = "get_status" /\ ~aobs.injected
            /\ (~parsed.ok \/ parsed.v \notin 1..Len(Children(dom))))
        => /\ ~aobs.raised
           /\ aobs.status = "unknown"
           /\ aobs.error # ""
           /\ aobs.item = NoItem

\* C2: get_status never raises, whatever the job_id and whichever page call
\* fails.
C2_StatusNeverRaises ==
    aobs.op = "get_status" => ~aobs.raised

\* ---------------------------------------------- audio: generate actions

\* The options and controls the generate action draws from.
GenerateCases ==
    GenerateInputs({"icon", "button", "missing"}, {"unset", "clicked", "missing"},
                   {"unset", "not_listed"}, {"unset", "missing"}, {"unset", "filled"},
                   {"named", "last"}, {"none"})
    \cup
    GenerateInputs({"icon"}, {"unset"}, {"unset", "not_listed"}, {"unset"}, {"unset"},
                   {"named"}, {"panel", "dialog", "options", "click"})

Bare(in) ==
    /\ in.style = "clicked"
    /\ in.language = "unset" /\ in.duration = "unset" /\ in.prompt = "unset"

GenerateSubmit ==
    /\ pc = "idle"
    /\ dom.nextId <= MaxArtifacts
    /\ \E in \in GenerateCases :
        LET r == generate_submit(dom, in)
        IN  /\ dom' = r.d
            /\ IF r.raised
               THEN /\ pc' = "idle"
                    /\ frame' = Idle
                    /\ aobs' = [NoAudioObs EXCEPT !.op = "generate", !.raised = TRUE,
                                    !.injected = (in.fail # "none")]
               ELSE /\ pc' = "gen_wait"
                    /\ frame' = [op |-> "generate", created |-> r.created,
                                 early |-> dom.containers, bare |-> Bare(in),
                                 options |-> NoOptions]
                    /\ aobs' = NoAudioObs
    /\ UNCHANGED files
    /\ UNCHANGED svars

\* Lines 133-138: the dialog closes within the wait, or the wait times out.
GenerateWait ==
    /\ pc = "gen_wait"
    /\ \E hidden \in BOOLEAN : dom' = [dom EXCEPT !.dialog = ~hidden]
    /\ pc' = "gen_settle"
    /\ UNCHANGED <<files, frame, aobs>>
    /\ UNCHANGED svars

\* Lines 140-145: after the settle pause, count and return.
GenerateReturn ==
    /\ pc = "gen_settle"
    /\ pc' = "idle"
    /\ frame' = Idle
    /\ aobs' = [NoAudioObs EXCEPT !.op = "generate", !.result = DecStr(read_count(dom, frame)),
                    !.created = frame.created, !.early = frame.early, !.bare = frame.bare,
                    !.option = frame.options.option, !.toggle = frame.options.toggle,
                    !.esc = frame.options.esc, !.warned = frame.options.warned]
    /\ UNCHANGED <<dom, files>>
    /\ UNCHANGED svars

NextGenerate ==
    \/ GenerateSubmit
    \/ GenerateWait
    \/ GenerateReturn
    \/ Materialize
    \/ ForeignArtifact
    \/ ArtifactRemoved
    \/ ContainerRender
    \/ TabAway

InitGenerate == InitAudio /\ InitSessionIdle

SpecGenerate == InitGenerate /\ [][NextGenerate]_vars

\* C4: the job id generate returns is the decimal string of the number of
\* artifact containers counted once the submit click, the wait for the
\* dialog and the settle pause are over, whatever the options.
C4_JobIdIsCountAfterSubmit ==
    (aobs.op = "generate" /\ ~aobs.raised)
        => /\ aobs.created # NoItem
           /\ aobs.result = DecStr(dom.containers)
           /\ ParseInt(aobs.result) = [ok |-> TRUE, v |-> dom.containers]

C4_Witness ==
    /\ aobs.op = "generate" /\ ~aobs.raised
    /\ aobs.bare
    /\ aobs.early # dom.containers
    /\ aobs.result = DecStr(dom.containers)

\* C5: with no artifact added or removed since generate returned k, and the
\* artifact of that call the newest of the list, k is in range for the list
\* get_status indexes and get_status(k) reports on that artifact.
C5_JobIdRanksNewestItem ==
    LET n == Len(dom.artifacts)
        k == ParseInt(aobs.result).v
    IN  (aobs.op = "generate" /\ ~aobs.raised /\ dom.library
            /\ n > 0 /\ dom.artifacts[n].id = aobs.created)
        => /\ k \in 1..n
           /\ dom.artifacts[k].id = aobs.created
           /\ get_status(dom, aobs.result, "none").item = aobs.created

\* ------------------------------------------- audio: get_download_url

\* page.route(pattern, route_handler)
route(d) == [d EXCEPT !.routes = @ + 1]

\* page.unroute(pattern, route_handler): the handler leaves the page's list
\* even when the call then raises (the except of line 299 swallows that).
unrouteSkipped(d) == d

unroute(d) == [d EXCEPT !.routes = IF @ > 0 THEN @ - 1 ELSE 0]

\* The interceptor without its test of the URL held: every media request is
\* captured and aborted.
route_handlerEveryMedia(captured, request) ==
    IF request.kind = "media"
    THEN [ captured |-> request.url, abort |-> TRUE, continue |-> ~request.alive,
           verdict |-> IF request.alive THEN "aborted" ELSE "none" ]
    ELSE [ captured |-> captured, abort |-> FALSE, continue |-> TRUE,
           verdict |-> IF request.alive THEN "continued" ELSE "none" ]

\* Lines 262-274: the interceptor, on one request. captured is the URL held
\* so far ("none": none). abort and continue: route.abort and
\* route.continue_ were called; on a route that is no longer alive both
\* raise, which the handler swallows, and the request gets no verdict.
route_handler(captured, request) ==
    IF captured = "none" /\ request.kind = "media"
    THEN [ captured |-> request.url, abort |-> TRUE, continue |-> ~request.alive,
           verdict |-> IF request.alive THEN "aborted" ELSE "none" ]
    ELSE [ captured |-> captured, abort |-> FALSE, continue |-> TRUE,
           verdict |-> IF request.alive THEN "continued" ELSE "none" ]

Urls == {"u1", "u2"}

\* The requests the page issues: media files, anything else, and requests
\* whose route is gone before the handler answers.
Requests ==
    { [kind |-> "media", url |-> "u1", alive |-> TRUE],
      [kind |-> "media", url |-> "u2", alive |-> TRUE],
      [kind |-> "other", url |-> "u1", alive |-> TRUE],
      [kind |-> "media", url |-> "u2", alive |-> FALSE],
      [kind |-> "other", url |-> "u2", alive |-> FALSE] }

\* Lines 225-287: up to the play click. next is "poll" (the loop is
\* entered), "return" (None is returned) or "raise". clicked: the controls
\* click() was called on before the loop; routed: page.route was called;
\* listed: job is a
\* number in 1..N, N the items the panel lists as the call reads them (line
\* 235). floor = FALSE is the
\* range test of line 237 without its index < 0.
get_download_url_startWith(d0, job, play, fail, floor) ==
    LET tab == ensure_studio_tab(d0, fail)
        d == tab.d
        parsed == ParseInt(job)
        index == parsed.v - 1
        count == Len(Children(d))
        installed == route(d)
        switch == IF tab.via = "none" THEN {} ELSE {"panel_switch"}
        out(dd, nx, routed, pressed) ==
            [ d |-> dd, next |-> nx, routed |-> routed,
              listed |-> parsed.ok /\ parsed.v \in 1..count,
              clicked |-> switch \cup (IF pressed THEN {"play"} ELSE {}) ]
    IN  IF tab.raised THEN out(d, "raise", FALSE, FALSE)
        ELSE IF ~parsed.ok THEN out(d, "return", FALSE, FALSE)
        ELSE IF fail = "count" THEN out(d, "raise", FALSE, FALSE)
        ELSE IF (floor /\ index < 0) \/ index >= count THEN out(d, "return", FALSE, FALSE)
        ELSE IF fail = "icon" THEN out(d, "raise", FALSE, FALSE)
        ELSE IF ~play THEN out(d, "return", FALSE, FALSE)
        ELSE IF fail = "route" THEN out(unroute(installed), "raise", TRUE, FALSE)
        ELSE IF fail = "click" THEN out(unroute(installed), "return", TRUE, TRUE)
        ELSE out([installed EXCEPT !.player = TRUE], "poll", TRUE, TRUE)

get_download_url_startUpperOnly(d0, job, play, fail) ==
    get_download_url_startWith(d0, job, play, fail, FALSE)

get_download_url_start(d0, job, play, fail) ==
    get_download_url_startWith(d0, job, play, fail, TRUE)

\* Lines 296-314: the finally block and the return. closeFails: locating or
\* clicking the player's close control raises.
get_download_url_finish(d0, captured, closeFails) ==
    LET d == unroute(d0)
    IN  IF captured = "none" THEN [d |-> d, url |-> "none"]
        ELSE IF closeFails THEN [d |-> d, url |-> "none"]
        ELSE [d |-> [d EXCEPT !.player = FALSE], url |-> captured]

\* The job identifiers, and the play control's visibility with the page call
\* that fails, the get_download_url action draws from.
UrlJobIds == { <<"x">>, <<"0">>, <<"1">>, <<"2">>, <<"3">>, <<"4">> }
UrlCases ==
    { <<TRUE, "none">>, <<FALSE, "none">> }
    \cup { <<TRUE, f>> : f \in {"panel", "count", "icon", "route", "click"} }

GetDownloadUrl ==
    /\ pc = "idle"
    /\ aobs.op = "none"
    /\ \E job \in UrlJobIds : \E in \in UrlCases :
        LET play == in[1]
            fail == in[2]
            r == get_download_url_start(dom, job, play, fail)
        IN  /\ dom' = r.d
            /\ IF r.next = "poll"
               THEN /\ pc' = "url_poll"
                    /\ frame' = [op |-> "get_download_url", job |-> job, captured |-> "none",
                                 elapsed |-> 0, log |-> <<>>, listed |-> r.listed,
                                 clicked |-> r.clicked]
                    /\ aobs' = NoAudioObs
               ELSE /\ pc' = "idle"
                    /\ frame' = Idle
                    /\ aobs' = [NoAudioObs EXCEPT !.op = "get_download_url", !.job = job,
                                    !.raised = (r.next = "raise"),
                                    !.injected = (fail # "none"),
                                    !.clicked = r.clicked, !.routed = r.routed,
                                    !.listed = r.listed]
    /\ UNCHANGED files
    /\ UNCHANGED svars

\* The page issues a request while the interceptor is installed.
Request ==
    /\ pc = "url_poll"
    /\ dom.routes > 0
    /\ Len(frame.log) < MaxRequests
    /\ \E request \in Requests :
        LET r == route_handler(frame.captured, request)
        IN  frame' = [frame EXCEPT !.captured = r.captured,
                                   !.log = Append(@, [request |-> request, abort |-> r.abort,
                                                      continue |-> r.continue,
                                                      verdict |-> r.verdict])]
    /\ UNCHANGED <<dom, files, pc, aobs>>
    /\ UNCHANGED svars

\* Lines 291-295: one round of the loop; the wait may raise, and the finally
\* block then runs on the way out.
GetDownloadUrlPoll ==
    /\ pc = "url_poll"
    /\ frame.captured = "none"
    /\ frame.elapsed < MaxPolls
    /\ \/ /\ frame' = [frame EXCEPT !.elapsed = @ + 1]
          /\ UNCHANGED <<dom, pc, aobs>>
       \/ /\ dom' = unroute(dom)
          /\ pc' = "idle"
          /\ frame' = Idle
          /\ aobs' = [NoAudioObs EXCEPT !.op = "get_download_url", !.job = frame.job,
                          !.raised = TRUE, !.injected = TRUE,
                          !.clicked = frame.clicked, !.routed = TRUE,
                          !.listed = frame.listed]
    /\ UNCHANGED files
    /\ UNCHANGED svars

GetDownloadUrlReturn ==
    /\ pc = "url_poll"
    /\ frame.captured # "none" \/ frame.elapsed >= MaxPolls
    /\ \E closeFails \in BOOLEAN :
        LET r == get_download_url_finish(dom, frame.captured, closeFails)
        IN  /\ dom' = r.d
            /\ aobs' = [NoAudioObs EXCEPT !.op = "get_download_url", !.job = frame.job,
                            !.url = r.url, !.injected = closeFails, !.log = frame.log,
                            !.captured = frame.captured,
                            !.clicked = frame.clicked, !.routed = TRUE,
                            !.listed = frame.listed]
    /\ pc' = "idle"
    /\ frame' = Idle
    /\ UNCHANGED files
    /\ UNCHANGED svars

\* The caller has read what get_download_url returned.
UrlTaken ==
    /\ pc = "idle"
    /\ aobs.op = "get_download_url"
    /\ aobs' = Stale
    /\ UNCHANGED <<dom, files, pc, frame>>
    /\ UNCHANGED svars

NextUrl ==
    \/ GetDownloadUrl
    \/ UrlTaken
    \/ Request
    \/ GetDownloadUrlPoll
    \/ GetDownloadUrlReturn
    \/ ForeignArtifact
    \/ TabAway

InitUrl == InitAudio /\ InitSessionIdle

SpecUrl == InitUrl /\ [][NextUrl]_vars

\* C3: whenever get_download_url is over - a URL captured, the capture timed
\* out, the play click failed, or a page call raised - no interceptor of it
\* is left installed on the page.
C3_NoResidualInterceptor ==
    pc = "idle" => dom.routes = 0

C3_Witness ==
    /\ aobs.op = "get_download_url"
    /\ aobs.url # "none"
    /\ dom.routes = 0

\* ------------------------------------------------ audio: download_file

\* File names, as their parts: a.mp3, a.mp3.crdownload, .tmp and d.
FinalName == <<"a", ".mp3">>
PartialName == <<"a", ".mp3", ".crdownload">>
HiddenName == <<".", "tmp">>
DirName == <<"d">>

\* What the download directory may hold: regular files and a directory.
FileSpecs ==
    { [name |-> FinalName, kind |-> "file", size |-> 0],
      [name |-> FinalName, kind |-> "file", size |-> 1],
      [name |-> PartialName, kind |-> "file", size |-> 1],
      [name |-> HiddenName, kind |-> "file", size |-> 1],
      [name |-> DirName, kind |-> "dir", size |-> 1] }

NoFile == <<>>

\* os.listdir(download_dir)
listdir(fs) == { f.name : f \in fs }

endswith_crdownload(name) == name[Len(name)] = ".crdownload"

startswith_dot(name) == name[1] = "."

\* _reset_download_behavior: every "**/*" handler is removed and downloads
\* are allowed into /tmp/shared-downloads; neither call's failure is raised.
reset_download_behavior(d) == [d EXCEPT !.routes = 0, !.saveTo = "/tmp/shared-downloads"]

\* Lines 324-378: up to the click on the download entry. more and menu: the
\* item's more button and the download entry are visible; listFails: the
\* first listing of the directory raises. next is "poll", "return" (None is
\* returned) or "raise".
download_file_start(d0, fs, job, more, menu, listFails, fail) ==
    LET tab == ensure_studio_tab(d0, fail)
        d == tab.d
        parsed == ParseInt(job)
        index == parsed.v - 1
        count == Len(Children(d))
        before == IF listFails THEN {} ELSE listdir(fs)
        out(dd, nx) == [d |-> dd, next |-> nx, before |-> before]
    IN  IF tab.raised THEN out(d, "raise")
        ELSE IF ~parsed.ok THEN out(d, "return")
        ELSE IF fail = "count" THEN out(d, "return")
        ELSE IF index < 0 \/ index >= count THEN out(d, "return")
        ELSE IF fail = "icon" \/ ~more THEN out(d, "return")
        ELSE IF fail = "click" \/ ~menu THEN out(d, "return")
        ELSE IF fail = "menu_click" THEN out(reset_download_behavior(d), "return")
        ELSE out(reset_download_behavior(d), "poll")

\* Lines 421-425: the directory after os.remove(downloaded_file).
remove_downloadedAll(fs, name) == {}

remove_downloaded(fs, name) == { f \in fs : f.name # name }

\* A name that leaves the directory is no longer one of the files the running
\* call began with (began is kept for the properties only).
Forget(fr, name) ==
    IF fr.op = "download_file" THEN [fr EXCEPT !.began = @ \ {name}] ELSE fr

\* Lines 388-398: the files one round of the loop accepts.
new_downloads(fs, before) ==
    { f \in fs : /\ f.name \notin before
                 /\ ~endswith_crdownload(f.name) /\ ~startswith_dot(f.name)
                 /\ f.kind = "file" /\ f.size > 0 }

\* The job identifiers and the cases the download_file action draws from:
\* <<more, menu, listFails, fail>>.
FileJobIds == { <<"x">>, <<"0">>, <<"1">>, <<"3">> }
FileCases ==
    { <<TRUE, TRUE, FALSE, "none">>, <<FALSE, TRUE, FALSE, "none">>,
      <<TRUE, FALSE, FALSE, "none">>, <<TRUE, TRUE, TRUE, "none">> }
    \cup { <<TRUE, TRUE, FALSE, f>> : f \in {"panel", "count", "icon", "click", "menu_click"} }

DownloadFile ==
    /\ pc = "idle"
    /\ \E job \in FileJobIds : \E in \in FileCases :
        LET r == download_file_start(dom, files, job, in[1], in[2], in[3], in[4])
        IN  /\ dom' = r.d
            /\ IF r.next = "poll"
               THEN /\ pc' = "file_poll"
                    /\ frame' = [op |-> "download_file", job |-> job, before |-> r.before,
                                 began |-> listdir(files), found |-> NoFile, elapsed |-> 0]
                    /\ aobs' = NoAudioObs
               ELSE /\ pc' = "idle"
                    /\ frame' = Idle
                    /\ aobs' = [NoAudioObs EXCEPT !.op = "download_file", !.job = job,
                                    !.raised = (r.next = "raise"),
                                    !.injected = (in[4] # "none")]
    /\ UNCHANGED files
    /\ UNCHANGED svars

\* Lines 386-405: one round of the loop: a new settled file is found, or none
\* is there yet, or the listing raises (caught at line 399) and the round
\* finds nothing whatever the directory holds.
DownloadFilePoll ==
    /\ pc = "file_poll"
    /\ frame.found = NoFile
    /\ frame.elapsed < MaxPolls
    /\ \/ \E f \in new_downloads(files, frame.before) :
              frame' = [frame EXCEPT !.found = f.name]
       \/ /\ new_downloads(files, frame.before) = {}
          /\ frame' = [frame EXCEPT !.elapsed = @ + 1]
       \/ frame' = [frame EXCEPT !.elapsed = @ + 1]
    /\ UNCHANGED <<dom, files, pc, aobs>>
    /\ UNCHANGED svars

\* Lines 407-433: nothing found, or the file read, removed and returned. A
\* file that is gone by now makes open() raise, and None is returned.
DownloadFileReturn ==
    /\ pc = "file_poll"
    /\ frame.found # NoFile \/ frame.elapsed >= MaxPolls
    /\ LET got == { f \in files : f.name = frame.found /\ f.kind = "file" }
       IN  IF frame.found = NoFile \/ got = {}
           THEN /\ files' = files
                /\ aobs' = [NoAudioObs EXCEPT !.op = "download_file", !.job = frame.job]
           ELSE \E removeFails \in BOOLEAN : \E f \in got :
                /\ files' = IF removeFails THEN files
                                           ELSE remove_downloaded(files, frame.found)
                /\ aobs' = [NoAudioObs EXCEPT !.op = "download_file", !.job = frame.job,
                                !.file = frame.found, !.size = f.size,
                                !.old = (frame.found \in frame.began),
                                !.removed = listdir(files) \ listdir(files')]
    /\ pc' = "idle"
    /\ frame' = Idle
    /\ UNCHANGED dom
    /\ UNCHANGED svars

\* Something is written into the download directory.
FileWritten ==
    \E f \in FileSpecs :
        /\ f.name \notin listdir(files)
        /\ files' = files \cup {f}
        /\ UNCHANGED <<dom, pc, frame, aobs>>
        /\ UNCHANGED svars

\* An empty file receives its content.
FileGrows ==
    \E f \in files :
        /\ f.size = 0
        /\ files' = (files \ {f}) \cup {[f EXCEPT !.size = 1]}
        /\ UNCHANGED <<dom, pc, frame, aobs>>
        /\ UNCHANGED svars

\* The browser finishes a download: the partial file takes its final name.
DownloadCompletes ==
    \E f \in files :
        /\ f.name = PartialName
        /\ FinalName \notin listdir(files)
        /\ files' = (files \ {f}) \cup {[name |-> FinalName, kind |-> "file", size |-> 1]}
        /\ frame' = Forget(frame, f.name)
        /\ UNCHANGED <<dom, pc, aobs>>
        /\ UNCHANGED svars

\* A file is removed from the download directory by somebody else.
FileRemoved ==
    \E f \in files :
        /\ files' = files \ {f}
        /\ frame' = Forget(frame, f.name)
        /\ UNCHANGED <<dom, pc, aobs>>
        /\ UNCHANGED svars

NextFile ==
    \/ DownloadFile
    \/ DownloadFilePoll
    \/ DownloadFileReturn
    \/ FileWritten
    \/ FileGrows
    \/ DownloadCompletes
    \/ FileRemoved
    \/ ForeignArtifact
    \/ TabAway

InitFile == InitAudio /\ InitSessionIdle

SpecFile == InitFile /\ [][NextFile]_vars

\* C10: download_file never raises: whichever stage fails, panel switch
\* included, it returns None.
C10_DownloadNeverRaises ==
    aobs.op = "download_file" => ~aobs.raised

\* C11: a file download_file returns was not in the download directory when
\* the call began, and is a regular, non-empty file that is neither a
\* partial (.crdownload) nor a hidden (dot-prefixed) one.
C11_ReturnsOnlyNewSettledFile ==
    (aobs.op = "download_file" /\ aobs.file # NoFile)
        => /\ ~aobs.old
           /\ aobs.size > 0
           /\ ~endswith_crdownload(aobs.file)
           /\ ~startswith_dot(aobs.file)

\* C12: download_file removes at most the one file it returns, and nothing
\* when it returns None.
C12_RemovesOnlyReturnedFile ==
    aobs.op = "download_file"
        => aobs.removed \subseteq (IF aobs.file = NoFile THEN {} ELSE {aobs.file})

C12_Witness ==
    /\ aobs.op = "download_file"
    /\ aobs.file # NoFile
    /\ aobs.removed = {aobs.file}
    /\ files # {}

\* ------------------------------------------------- sources: group_sources

NL == "\n"

url_like_types == {"url", "youtube"}

\* Lines 16 and 19: the test of the two list comprehensions.
is_url_like(source) == get(source, "type", None) \in url_like_types

is_other(source) == get(source, "type", None) \notin url_like_types

\* The contents without a separator between them.
RECURSIVE joinNoSeparator(_, _)
joinNoSeparator(sep, parts) ==
    IF parts = <<>> THEN <<>>
    ELSE Head(parts) \o joinNoSeparator(sep, Tail(parts))

\* sep.join(parts), on strings as sequences of characters.
RECURSIVE join(_, _)
join(sep, parts) ==
    IF parts = <<>> THEN <<>>
    ELSE IF Len(parts) = 1 THEN Head(parts)
    ELSE Head(parts) \o <<sep>> \o join(sep, Tail(parts))

\* Lines 24-26: the generator handed to join.
contents(sources) == [ i \in 1..Len(sources) |-> get(sources[i], "content", <<>>) ]

\* The sources as they are, without grouping.
ungrouped(sources) == sources

\* The grouped item put after the other sources.
group_sourcesLast(sources) ==
    LET url_like_sources == SelectSeq(sources, is_url_like)
        other_sources == SelectSeq(sources, is_other)
    IN  other_sources \o
        (IF url_like_sources # <<>>
         THEN << [ type |-> get(url_like_sources[1], "type", "url"),
                   content |-> join(NL, contents(url_like_sources)) ] >>
         ELSE <<>>)

\* Lines 12-30.
group_sources(sources) ==
    LET url_like_sources == SelectSeq(sources, is_url_like)
        other_sources == SelectSeq(sources, is_other)
    IN  (IF url_like_sources # <<>>
         THEN << [ type |-> get(url_like_sources[1], "type", "url"),
                   content |-> join(NL, contents(url_like_sources)) ] >>
         ELSE <<>>)
        \o other_sources

\* The source dicts the callers hand in: links, text, an unknown kind, a
\* link without content, a dict without a type, and contents that are empty
\* or hold a newline themselves.
SourceDicts ==
    { [type |-> "url", content |-> <<"u">>],
      [type |-> "youtube", content |-> <<"y">>],
      [type |-> "text", content |-> <<"t">>],
      [type |-> "pdf", content |-> <<"p">>],
      [type |-> "url", content |-> <<>>],
      [type |-> "youtube", content |-> <<"v", NL, "w">>],
      [type |-> "url"],
      [content |-> <<"c">>] }

RECURSIVE Lists(_, _)
Lists(S, n) ==
    IF n = 0 THEN {<<>>}
    ELSE LET shorter == Lists(S, n - 1)
         IN  shorter \cup { Append(l, x) : l \in { m \in shorter : Len(m) = n - 1 }, x \in S }

SourceLists == Lists(SourceDicts, MaxSources)

\* One call: the list in the frame is grouped and the result returned.
GroupSources ==
    /\ pc = "group_sources"
    /\ aobs' = [NoAudioObs EXCEPT !.op = "group_sources", !.sources = frame.sources,
                                  !.result = group_sources(frame.sources)]
    /\ pc' = "idle"
    /\ frame' = Idle
    /\ UNCHANGED <<dom, files>>
    /\ UNCHANGED svars

NextGroup == GroupSources

InitGroup ==
    /\ dom \in InitDom
    /\ files = {}
    /\ pc = "group_sources"
    /\ frame \in { [op |-> "group_sources", sources |-> l] : l \in SourceLists }
    /\ aobs = NoAudioObs
    /\ InitSessionIdle

SpecGroup == InitGroup /\ [][NextGroup]_vars

\* Where the i-th of the joined parts begins, less one.
RECURSIVE Offset(_, _)
Offset(parts, i) ==
    IF i = 1 THEN 0 ELSE Offset(parts, i - 1) + Len(parts[i - 1]) + 1

\* text is the parts in their order with one newline between neighbours.
IsJoinOf(text, parts) ==
    LET n == Len(parts)
    IN  /\ Len(text) = IF n = 0 THEN 0 ELSE Offset(parts, n) + Len(parts[n])
        /\ \A i \in 1..n :
            /\ \A k \in 1..Len(parts[i]) : text[Offset(parts, i) + k] = parts[i][k]
            /\ i < n => text[Offset(parts, i + 1)] = NL

\* C13: with a url or youtube source in the input, the output of
\* group_sources holds exactly one url/youtube item; its content is the
\* contents of all such inputs joined by a newline in their order and its
\* kind is that of the first of them; with only such inputs it is the whole
\* output; an empty input gives an empty output.
C13_LinksGroupedIntoOne ==
    aobs.op = "group_sources" =>
        LET in == aobs.sources
            out == aobs.result
            links == SelectSeq(in, is_url_like)
            grouped == { i \in 1..Len(out) : is_url_like(out[i]) }
        IN  /\ in = <<>> => out = <<>>
            /\ links # <<>> =>
                /\ Cardinality(grouped) = 1
                /\ \A i \in grouped :
                    /\ IsJoinOf(out[i].content, contents(links))
                    /\ out[i].type = links[1].type
                /\ Len(links) = Len(in) => Len(out) = 1

C13_Witness ==
    /\ aobs.op = "group_sources"
    /\ Len(SelectSeq(aobs.sources, is_url_like)) = 2
    /\ Len(aobs.sources) = 3
    /\ get(aobs.sources[2], "type", None) = "text"
    /\ Len(aobs.result) = 2

\* C14: group_sources passes every source that is not a link through
\* unchanged and in its order, after the one grouped item if there is one:
\* the output has as many items as there are such sources, plus one if the
\* input holds a link.
C14_OthersPassThroughInOrder ==
    aobs.op = "group_sources" =>
        LET in == aobs.sources
            out == aobs.result
            others == SelectSeq(in, is_other)
            k == IF \E i \in 1..Len(in) : is_url_like(in[i]) THEN 1 ELSE 0
        IN  /\ Len(out) = Len(others) + k
            /\ \A i \in 1..Len(others) : out[k + i] = others[i]
            /\ k = 1 => is_url_like(out[1])

C14_Witness ==
    /\ aobs.op = "group_sources"
    /\ Len(aobs.sources) = 3
    /\ is_other(aobs.sources[1]) /\ is_url_like(aobs.sources[2]) /\ is_other(aobs.sources[3])
    /\ aobs.sources[1] # aobs.sources[3]
    /\ Len(aobs.result) = 3

\* --------------------------------------------------- sources: add_sources

\* The page as one call of the source manager sees it: d is the page, alive
\* is false once the page was closed under the call, trip lists the dialog
\* calls made for the item at hand.
Seen(d) == [d |-> d, alive |-> TRUE, trip |-> <<>>]

\* No exception's message: the error of a result that is a success.
NoError == <<>>

Returned(m) == [m |-> m, raised |-> FALSE, msg |-> NoError]

Thrown(m, msg) == [m |-> m, raised |-> TRUE, msg |-> msg]

\* A dialog call as a trip lists it; text is what a fill types.
Call(name) == [call |-> name, text |-> <<>>]

Fill(content) == [call |-> "fill", text |-> content]

\* Lines 40-46: a failure of the page call counts as "not open".
is_dialog_open(m) == m.alive /\ m.d.sourceDialog

\* Lines 48-60. addButton: the 'Add source' button is there and visible.
open_dialog(m, addButton) ==
    LET called == [m EXCEPT !.trip = Append(@, Call("open_dialog"))]
    IN  IF is_dialog_open(called) THEN Returned(called)
        ELSE IF ~called.alive THEN Thrown(called, <<"Target closed">>)
        ELSE IF ~addButton
             THEN Thrown(called, <<"Could not locate the 'Add source' button">>)
        ELSE Returned([called EXCEPT !.d.sourceDialog = TRUE])

\* The close controls of an open dialog: the button, none that is visible,
\* or a button whose click raises.
CloseControls == {"button", "none", "raises"}

\* Lines 62-78.
close_dialog(m, control) ==
    LET called == [m EXCEPT !.trip = Append(@, Call("close_dialog"))]
    IN  IF ~is_dialog_open(called) THEN Returned(called)
        ELSE IF control = "raises" THEN Thrown(called, <<"Timeout exceeded">>)
        ELSE IF control = "button" THEN Returned([called EXCEPT !.d.sourceDialog = FALSE])
        ELSE Returned(called)

\* What happens while one item is submitted: every control is found
\* ("ok"), the 'Add source' button is not ("no_add_button"), the input field
\* is not ("no_input"), or the page is closed before the field is looked up
\* ("page_closed").
ItemEvents == {"ok", "no_add_button", "no_input", "page_closed"}

\* Lines 83-124 and 131-170: the try block of add_url and of add_text.
\* missing is the RuntimeError's message when no input field is found.
fill_and_submit(m, content, event, missing) ==
    IF event = "page_closed" THEN Thrown([m EXCEPT !.alive = FALSE], <<"Target closed">>)
    ELSE IF ~m.alive THEN Thrown(m, <<"Target closed">>)
    ELSE IF event = "no_input" THEN Thrown(m, missing)
    ELSE IF content = None
         THEN Thrown(m, <<"expected string, got object">>)
    ELSE Returned([m EXCEPT !.trip = @ \o << Fill(content), Call("submit") >>])

\* The dialog call of add_url and add_text: open_dialog, the try block, and
\* close_dialog in the finally clause, whose exception replaces the block's.
\* finally = FALSE is close_dialog as the last statement of the try block.
submitWith(m, content, event, control, missing, finally) ==
    LET opened == open_dialog(m, event # "no_add_button")
        tried == fill_and_submit(opened.m, content, event, missing)
        closed == close_dialog(tried.m, control)
    IN  IF opened.raised THEN opened
        ELSE IF ~finally /\ tried.raised THEN tried
        ELSE IF closed.raised THEN closed
        ELSE [tried EXCEPT !.m = closed.m]

submitClosingAtEnd(m, content, event, control, missing) ==
    submitWith(m, content, event, control, missing, FALSE)

submit(m, content, event, control, missing) ==
    submitWith(m, content, event, control, missing, TRUE)

\* Lines 80-126.
add_url(m, source_type, url, event, control) ==
    submit(m, url, event, control, <<"Could not find URL input field for ", source_type>>)

\* Lines 128-172.
add_text(m, text_content, event, control) ==
    submit(m, text_content, event, control,
           <<"Could not find text input field for copied text source">>)

\* Lines 181-196: one item of the loop; the exception of a submission is
\* caught and its message kept.
add_one(m, source, event, control) ==
    LET source_type == get(source, "type", None)
        content == get(source, "content", None)
        fresh == [m EXCEPT !.trip = <<>>]
    IN  IF source_type \in {"url", "youtube"} THEN add_url(fresh, source_type, content, event, control)
        ELSE IF source_type = "text" THEN add_text(fresh, content, event, control)
        ELSE Thrown(fresh, <<"Unknown source type: ", source_type>>)

\* Lines 180-199: the loop from item i on. acc holds the results, the dialog
\* calls and the exceptions of the items before it. The wait of line 199 is
\* outside the try block and raises when the page has been closed.
RECURSIVE add_loop(_, _, _, _, _, _)
add_loop(m, grouped, events, control, i, acc) ==
    IF i > Len(grouped) THEN [acc EXCEPT !.d = m.d]
    ELSE LET r == add_one(m, grouped[i], events[i], control)
             result == [ source |-> grouped[i], success |-> ~r.raised, error |-> r.msg ]
             next == [acc EXCEPT !.results = Append(@, result),
                                 !.trips = Append(@, r.m.trip),
                                 !.thrown = Append(@, r.msg)]
         IN  IF ~r.m.alive THEN [next EXCEPT !.raised = TRUE, !.d = r.m.d]
             ELSE add_loop(r.m, grouped, events, control, i + 1, next)

\* Lines 174-201. control is the close control the calls of close_dialog meet.
add_sources(d0, sources, events, control) ==
    LET closed == close_dialog(Seen(d0), control)
        acc == [d |-> closed.m.d, results |-> <<>>, trips |-> <<>>, thrown |-> <<>>,
                raised |-> FALSE, lead |-> closed.m.trip, clear |-> ~is_dialog_open(closed.m)]
    IN  IF closed.raised THEN [acc EXCEPT !.raised = TRUE]
        ELSE add_loop(closed.m, group_sources(sources), events, control, 1, acc)

\* The dicts handed to add_sources and the lists made of them.
AddDicts ==
    { [type |-> "url", content |-> <<"u">>],
      [type |-> "youtube", content |-> <<"y">>],
      [type |-> "text", content |-> <<"t">>],
      [type |-> "pdf", content |-> <<"p">>] }

AddLists == Lists(AddDicts, MaxSources)

\* The events of a call: one per item, none but "ok" after a closed page.
AddEvents(n) ==
    { ev \in [1..n -> ItemEvents] :
        \A i \in 1..n : \A j \in 1..n : (i < j /\ ev[i] = "page_closed") => ev[j] = "ok" }

AddSources ==
    /\ pc = "idle"
    /\ \E sources \in AddLists : \E control \in CloseControls :
       \E events \in AddEvents(Len(group_sources(sources))) :
        LET r == add_sources(dom, sources, events, control)
        IN  /\ dom' = r.d
            /\ aobs' = [NoAudioObs EXCEPT !.op = "add_sources", !.sources = sources,
                                          !.result = r.results, !.trips = r.trips,
                                          !.thrown = r.thrown, !.raised = r.raised,
                                          !.lead = r.lead, !.clear = r.clear,
                                          !.control = control]
    /\ pc' = "returned"
    /\ UNCHANGED <<files, frame>>
    /\ UNCHANGED svars

\* The caller has taken what the call returned (or raised).
ResultTaken ==
    /\ pc = "returned"
    /\ pc' = "idle"
    /\ aobs' = NoAudioObs
    /\ UNCHANGED <<dom, files, frame>>
    /\ UNCHANGED svars

\* Somebody opens a dialog on the page.
DialogOpened ==
    /\ ~dom.sourceDialog
    /\ dom' = [dom EXCEPT !.sourceDialog = TRUE]
    /\ aobs' = Stale
    /\ UNCHANGED <<files, pc, frame>>
    /\ UNCHANGED svars

NextSources ==
    \/ AddSources
    \/ ResultTaken
    \/ DialogOpened

InitSources == InitAudio /\ InitSessionIdle

SpecSources == InitSources /\ [][NextSources]_vars

\* C15: add_sources returns one result per item of the grouped list, in
\* that order and each with its item; an exception met while an item is
\* submitted is that item's failure, with its message, and the items after
\* it are attempted all the same.
C15_OneResultPerItem ==
    aobs.op = "add_sources" =>
        LET grouped == group_sources(aobs.sources)
        IN  /\ ~aobs.raised
            /\ Len(aobs.result) = Len(grouped)
            /\ Len(aobs.trips) = Len(grouped)
            /\ \A i \in 1..Len(grouped) :
                /\ aobs.result[i].source = grouped[i]
                /\ aobs.result[i].success = (aobs.thrown[i] = NoError)
                /\ aobs.result[i].error = aobs.thrown[i]

\* The dialog calls of a submission that went through.
RoundTrip(content) ==
    << Call("open_dialog"), Fill(content), Call("submit"), Call("close_dialog") >>

\* How often a dialog call is in a trip.
Times(trip, call) == Cardinality({ i \in 1..Len(trip) : trip[i] = call })

\* C16: for one or more sources that are all links, an add_sources that
\* returns has made one dialog round trip - one open, one fill with the
\* contents joined by newlines, one submit, one close - and returns one
\* result.
C16_LinksTakeOneRoundTrip ==
    ( /\ aobs.op = "add_sources" /\ ~aobs.raised
      /\ aobs.sources # <<>>
      /\ \A i \in 1..Len(aobs.sources) : is_url_like(aobs.sources[i]) )
        => LET joined == join(NL, contents(aobs.sources))
           IN  /\ Len(aobs.result) = 1
               /\ Len(aobs.trips) = 1
               /\ \A i \in 1..Len(RoundTrip(joined)) :
                      Times(aobs.trips[1], RoundTrip(joined)[i]) <= 1
               /\ \A i \in 1..Len(aobs.trips[1]) :
                      Times(RoundTrip(joined), aobs.trips[1][i]) = 1
               /\ aobs.result[1].success => aobs.trips[1] = RoundTrip(joined)

C16_Witness ==
    /\ aobs.op = "add_sources" /\ ~aobs.raised
    /\ Len(aobs.sources) = 3
    /\ \A i \in 1..Len(aobs.sources) : is_url_like(aobs.sources[i])
    /\ aobs.sources[1] # aobs.sources[2]
    /\ Len(aobs.result) = 1
    /\ aobs.result[1].success

\* The last dialog call of a trip is its close_dialog.
ClosedLast(trip) == trip # <<>> /\ trip[Len(trip)] = Call("close_dialog")

\* C35 as stated: add_sources calls close_dialog before the first item and
\* after every item it processes, whether the item succeeded or raised;
\* and with a close control that works no dialog is open when it returns.
C35_ClosesAfterEveryItem ==
    (aobs.op = "add_sources" /\ ~aobs.raised)
        => /\ aobs.lead = <<Call("close_dialog")>>
           /\ \A i \in 1..Len(aobs.trips) : ClosedLast(aobs.trips[i])
           /\ aobs.control = "button" => (aobs.clear /\ ~dom.sourceDialog)

\* The item's dialog was opened: open_dialog was called and returned.
Opened(trip, error) ==
    /\ trip # <<>> /\ trip[1] = Call("open_dialog")
    /\ error # <<"Could not locate the 'Add source' button">>

\* C35, amended: add_sources calls close_dialog before the first item and,
\* for every item whose dialog it opened, after the item, whether the
\* submission succeeded or raised; an item of an unknown type or one whose
\* 'Add source' button is not found opens no dialog and has no close; and
\* with a close control that works no dialog is open when it returns.
C35_ClosesAfterEveryOpenedItem ==
    (aobs.op = "add_sources" /\ ~aobs.raised)
        => /\ aobs.lead = <<Call("close_dialog")>>
           /\ \A i \in 1..Len(aobs.trips) :
                  IF Opened(aobs.trips[i], aobs.thrown[i])
                  THEN ClosedLast(aobs.trips[i])
                  ELSE Times(aobs.trips[i], Call("close_dialog")) = 0
           /\ aobs.control = "button" => (aobs.clear /\ ~dom.sourceDialog)

C35_Witness ==
    /\ aobs.op = "add_sources" /\ ~aobs.raised
    /\ aobs.control = "button"
    /\ Len(aobs.trips) = 2
    /\ aobs.thrown[1] = NoError /\ ClosedLast(aobs.trips[1])
    /\ aobs.thrown[2] = <<"Could not find text input field for copied text source">>
    /\ aobs.trips[2] = <<Call("open_dialog"), Call("close_dialog")>>
    /\ ~dom.sourceDialog

\* ------------------------------------- clear_sources and clear_studio

\* Lines 210 (sources.py) and 444 (audio.py).
max_attempts == 200

\* The loop goes on whatever the number of rounds made.
loop_unbounded(attempt) == TRUE

\* for _ in range(max_attempts): another round begins.
loop_continues(attempt) == attempt < max_attempts

\* The locals of a clearing call: rounds completed, the removed counter, the
\* rounds in which the item was seen to detach or the three clicks were all
\* made (kept for the properties), and why the loop was left.
ClearFrame(op) ==
    [ op |-> op, attempt |-> 0, removed |-> 0, done |-> 0, stop |-> "none" ]

\* A round that ends the loop.
Break(fr, why) == [fr EXCEPT !.stop = why]

\* A round after which removed is one more; clicked: the clicks were all made.
Counted(fr, clicked) ==
    [fr EXCEPT !.attempt = @ + 1, !.removed = @ + 1,
               !.done = IF clicked THEN @ + 1 ELSE @]

\* What a round of clear_sources meets: the item detaches, stays, a control
\* is missing, a call in the try block raises, or the count itself raises.
SourceOutcomes ==
    { "detached", "stuck", "no_more_button", "no_menu_item", "no_confirm",
      "raises", "count_raises" }

\* Lines 212-263 of sources.py: one round. [d, fr].
clear_sources_round(d, fr, outcome) ==
    IF outcome = "count_raises" THEN [d |-> d, fr |-> Break(fr, "raised")]
    ELSE IF d.sourceItems = 0 THEN [d |-> d, fr |-> Break(fr, "empty")]
    ELSE IF outcome \in {"no_more_button", "no_menu_item", "no_confirm"}
         THEN [d |-> d, fr |-> Break(fr, "control")]
    ELSE IF outcome = "raises" THEN [d |-> d, fr |-> Break(fr, "error")]
    ELSE IF outcome = "detached"
         THEN [d |-> [d EXCEPT !.sourceItems = @ - 1], fr |-> Counted(fr, TRUE)]
    ELSE [d |-> d, fr |-> Counted(fr, TRUE)]

\* What a round of clear_studio meets.
StudioOutcomes ==
    { "detached", "stuck", "confirm_click_raises", "no_more_button",
      "more_click_raises", "no_menu_item", "menu_click_raises", "no_confirm",
      "count_raises" }

\* Lines 446-498 of audio.py: one round. [d, fr].
clear_studio_round(d, fr, outcome) ==
    IF outcome = "count_raises" THEN [d |-> d, fr |-> Break(fr, "raised")]
    ELSE IF Len(Children(d)) = 0 THEN [d |-> d, fr |-> Break(fr, "empty")]
    ELSE IF outcome \in {"no_more_button", "no_menu_item", "no_confirm"}
         THEN [d |-> d, fr |-> Break(fr, "control")]
    ELSE IF outcome = "more_click_raises" THEN [d |-> d, fr |-> Break(fr, "error")]
    ELSE IF outcome = "menu_click_raises" THEN [d |-> d, fr |-> Break(fr, "raised")]
    ELSE IF outcome = "confirm_click_raises" THEN [d |-> d, fr |-> Counted(fr, FALSE)]
    ELSE IF outcome = "detached"
         THEN [d |-> [d EXCEPT !.artifacts = Tail(@)], fr |-> Counted(fr, TRUE)]
    ELSE [d |-> d, fr |-> Counted(fr, TRUE)]

\* Lines 437-442 of audio.py: before the loop. [d, fr].
clear_studio_start(d0, fail) ==
    LET tab == ensure_studio_tab(d0, fail)
        fr == ClearFrame("clear_studio")
    IN  IF tab.raised \/ fail = "count" THEN [d |-> tab.d, fr |-> Break(fr, "raised")]
        ELSE IF ~tab.d.library THEN [d |-> tab.d, fr |-> Break(fr, "no_library")]
        ELSE [d |-> tab.d, fr |-> fr]

\* Lines 265 (sources.py) and 442, 500 (audio.py): what is returned.
ClearResult(fr) ==
    [NoAudioObs EXCEPT !.op = fr.op, !.raised = (fr.stop = "raised"),
                       !.count = fr.removed, !.success = (fr.removed > 0),
                       !.attempts = fr.attempt, !.done = fr.done,
                       !.stop = IF fr.stop = "none" THEN "limit" ELSE fr.stop]

ClearSources ==
    /\ pc = "idle"
    /\ pc' = "clear_sources"
    /\ frame' = ClearFrame("clear_sources")
    /\ aobs' = NoAudioObs
    /\ UNCHANGED <<dom, files>>
    /\ UNCHANGED svars

ClearSourcesRound ==
    /\ pc = "clear_sources"
    /\ frame.stop = "none"
    /\ loop_continues(frame.attempt)
    /\ \E outcome \in SourceOutcomes :
        LET r == clear_sources_round(dom, frame, outcome)
        IN  dom' = r.d /\ frame' = r.fr
    /\ UNCHANGED <<files, pc, aobs>>
    /\ UNCHANGED svars

ClearStudio ==
    /\ pc = "idle"
    /\ \E fail \in {"none", "panel", "count"} :
        LET r == clear_studio_start(dom, fail)
        IN  dom' = r.d /\ frame' = r.fr
    /\ pc' = "clear_studio"
    /\ aobs' = NoAudioObs
    /\ UNCHANGED files
    /\ UNCHANGED svars

ClearStudioRound ==
    /\ pc = "clear_studio"
    /\ frame.stop = "none"
    /\ loop_continues(frame.attempt)
    /\ \E outcome \in StudioOutcomes :
        /\ outcome = "confirm_click_raises" => frame.removed - frame.done < MaxFaults
        /\ LET r == clear_studio_round(dom, frame, outcome)
           IN  dom' = r.d /\ frame' = r.fr
    /\ UNCHANGED <<files, pc, aobs>>
    /\ UNCHANGED svars

\* The loop is over: the call returns its dict, or the exception leaves it.
ClearReturn ==
    /\ pc \in {"clear_sources", "clear_studio"}
    /\ frame.stop # "none" \/ ~loop_continues(frame.attempt)
    /\ aobs' = ClearResult(frame)
    /\ pc' = "idle"
    /\ frame' = Idle
    /\ UNCHANGED <<dom, files>>
    /\ UNCHANGED svars

\* A source submitted earlier shows up in the source list.
SourceAppears ==
    /\ dom.sourceItems < MaxSources
    /\ dom' = [dom EXCEPT !.sourceItems = @ + 1]
    /\ aobs' = Stale
    /\ UNCHANGED <<files, pc, frame>>
    /\ UNCHANGED svars

NextClear ==
    \/ ClearSources
    \/ ClearSourcesRound
    \/ ClearStudio
    \/ ClearStudioRound
    \/ ClearReturn
    \/ SourceAppears
    \/ ForeignArtifact
    \/ TabAway

InitClear == InitAudio /\ InitSessionIdle

SpecClear == InitClear /\ [][NextClear]_vars

\* C17: clear_sources and clear_studio make at most 200 rounds of their
\* loop, also when no confirmed deletion removes its item; they stop before
\* that when no item is left or a control is not found; success is returned
\* true exactly when count is above 0.
C17_ClearingIsBounded ==
    /\ pc \in {"clear_sources", "clear_studio"} => frame.attempt <= 200
    /\ (aobs.op \in {"clear_sources", "clear_studio"} /\ ~aobs.raised)
        => /\ aobs.attempts <= 200
           /\ aobs.count <= 200
           /\ aobs.success = (aobs.count > 0)
           /\ aobs.stop = "limit" <=> aobs.attempts = 200
           /\ aobs.stop \in {"limit", "empty", "control", "error", "no_library"}

C17_Witness ==
    /\ aobs.op = "clear_sources"
    /\ aobs.stop = "limit"
    /\ aobs.count = 200
    /\ dom.sourceItems > 0

\* C18: the count clear_sources and clear_studio return is the number of
\* rounds in which the item was seen to detach or menu, delete entry and
\* confirmation were all clicked; a round whose confirmation click did not
\* go through, with no detach seen, is not counted.
C18_CountIsCompletedDeletions ==
    (aobs.op \in {"clear_sources", "clear_studio"} /\ ~aobs.raised)
        => aobs.count = aobs.done

\* ------------------------------------------- audio: the status of an item

\* The words an item's inner text may hold, in the cases and languages met.
StatusWords ==
    { "sync", "Sync", "Generating", "he:generating", "play_arrow",
      "Error", "ERROR", "error", "he:error", "zh:error" }

\* What an item may show: up to two of the words, the play icon or not.
AllLooks ==
    { [text |-> ws, icon |-> b] :
        ws \in { s \in SUBSET StatusWords : Cardinality(s) <= 2 }, b \in BOOLEAN }

\* The languages _detect_language settles on.
Langs == {"en", "he", "zh", "ja"}

\* The oldest item's inner text or icon changes.
Appearance ==
    /\ Len(dom.artifacts) > 0
    /\ \E look \in AllLooks :
        /\ look # dom.artifacts[1].look
        /\ dom' = [dom EXCEPT !.artifacts[1].look = look]
    /\ aobs' = Stale
    /\ UNCHANGED <<files, pc, frame>>
    /\ UNCHANGED svars

\* get_status on the first identifiers, no page call failing.
GetStatusListed ==
    /\ pc = "idle"
    /\ \E job \in { <<"1">>, <<"2">>, <<"3">> } :
        LET r == get_status(dom, job, "none")
        IN  /\ dom' = r.d
            /\ aobs' = [NoAudioObs EXCEPT !.op = "get_status", !.job = job,
                            !.raised = r.raised, !.status = r.status, !.error = r.error,
                            !.item = r.item]
    /\ UNCHANGED <<files, pc, frame>>
    /\ UNCHANGED svars

NextLooks ==
    \/ GetStatusListed
    \/ ForeignArtifact
    \/ Appearance

InitLooks ==
    /\ InitAudio
    /\ auto \in { [InitAuto EXCEPT !.lang = l] : l \in Langs }
    /\ chrome = InitChrome
    /\ world = [ws |-> FALSE, pages |-> <<>>]
    /\ sobs = NoObs

SpecLooks == InitLooks /\ [][NextLooks]_vars

\* C19: for a job in range, get_status reports by the first rule that
\* applies: the text holds 'sync' or the localized generating text -
\* generating; else it holds 'play_arrow' or the play icon is visible -
\* completed; else it holds 'error' in any case or the localized error
\* text - failed; else unknown. The status is one of these four.
C19_StatusByFirstMatchingRule ==
    ( /\ aobs.op = "get_status"
      /\ ParseInt(aobs.job).v \in 1..Len(Children(dom)) )
        => LET look == Children(dom)[ParseInt(aobs.job).v].look
               generating ==
                   \/ "sync" \in look.text
                   \/ get_selector_by_language(auto.lang, "generating_status_text") \in look.text
               completed == "play_arrow" \in look.text \/ look.icon
               failed ==
                   \/ \E word \in look.text : lower_word(word) = "error"
                   \/ get_selector_by_language(auto.lang, "error_text") \in look.text
           IN  /\ ~aobs.raised
               /\ aobs.item = Children(dom)[ParseInt(aobs.job).v].id
               /\ aobs.status \in {"generating", "completed", "failed", "unknown"}
               /\ generating => aobs.status = "generating"
               /\ (~generating /\ completed) => aobs.status = "completed"
               /\ (~generating /\ ~completed /\ failed) => aobs.status = "failed"
               /\ (~generating /\ ~completed /\ ~failed) => aobs.status = "unknown"

C19_Witness ==
    /\ aobs.op = "get_status"
    /\ aobs.job = <<"1">>
    /\ Len(Children(dom)) > 0
    /\ Children(dom)[1].look = [text |-> {"play_arrow", "Error"}, icon |-> FALSE]
    /\ aobs.status = "completed"

\* The media requests of a log, by their place in it.
MediaAt(log) == { i \in 1..Len(log) : log[i].request.kind = "media" }

\* i is the first media request of the log.
IsFirstMedia(log, i) == i \in MediaAt(log) /\ \A j \in MediaAt(log) : i <= j

\* C20: of the requests get_download_url's interceptor meets, the first
\* media request alone has its URL captured and is aborted; every other
\* one, media or not, is continued; each request is given its abort or its
\* continue; and a URL that is returned is the first media request's.
C20_OnlyFirstMediaAborted ==
    LET log == IF pc = "url_poll" THEN frame.log ELSE aobs.log
    IN  /\ \A i \in 1..Len(log) :
            /\ log[i].abort <=> IsFirstMedia(log, i)
            /\ log[i].abort \/ log[i].continue
            /\ ~IsFirstMedia(log, i) => log[i].continue
            /\ log[i].request.alive =>
                   log[i].verdict = IF IsFirstMedia(log, i) THEN "aborted" ELSE "continued"
        /\ pc = "url_poll" =>
               frame.captured = IF MediaAt(log) = {} THEN "none"
                                ELSE log[CHOOSE i \in MediaAt(log) : IsFirstMedia(log, i)].request.url
        /\ (aobs.op = "get_download_url" /\ aobs.url # "none") =>
               \E i \in MediaAt(aobs.log) :
                   IsFirstMedia(aobs.log, i) /\ aobs.url = aobs.log[i].request.url

C20_Witness ==
    /\ aobs.op = "get_download_url"
    /\ Len(aobs.log) = 3
    /\ aobs.log[1].request.kind = "other" /\ aobs.log[1].verdict = "continued"
    /\ aobs.log[2].request.kind = "media" /\ aobs.log[2].verdict = "aborted"
    /\ aobs.log[3].request.kind = "media" /\ aobs.log[3].verdict = "continued"
    /\ aobs.log[3].request.url # aobs.log[2].request.url
    /\ aobs.url = aobs.log[2].request.url

\* C32: once the interceptor has captured a media URL, get_download_url
\* returns that URL, also when locating or clicking the player's close
\* control fails.
C32_CapturedUrlReturned ==
    (aobs.op = "get_download_url" /\ aobs.captured # "none")
        => aobs.url = aobs.captured

\* ------------------------------- audio: get_download_url on a job not listed

\* The call is over, no page call of it failed, and its job_id is not a
\* number or is a number outside 1..N, N the number of artifact items the
\* panel listed to the call.
UrlJobNotListed ==
    aobs.op = "get_download_url" /\ ~aobs.injected /\ ~aobs.listed

\* C21 as stated: for a job_id that is not a number or is outside 1..N, 0
\* included, get_download_url returns None, installs no interceptor and
\* clicks nothing.
C21_NotListedClicksNothing ==
    UrlJobNotListed
        => /\ ~aobs.raised /\ aobs.url = "none"
           /\ ~aobs.routed /\ dom.routes = 0
           /\ aobs.clicked = {}

\* C21, amended: for such a job_id get_download_url returns None, installs
\* no interceptor and clicks no control of any artifact item; the one click
\* it may make is the panel switch of _ensure_studio_tab.
C21_NotListedLeavesItemsAlone ==
    UrlJobNotListed
        => /\ ~aobs.raised /\ aobs.url = "none"
           /\ ~aobs.routed /\ dom.routes = 0
           /\ aobs.clicked \subseteq {"panel_switch"}

C21_Witness ==
    /\ UrlJobNotListed
    /\ aobs.job = <<"0">>
    /\ Len(Children(dom)) >= 1
    /\ aobs.url = "none" /\ aobs.clicked = {}

\* ------------------------------------------------- audio: generate a style

\* The labels of the radios of the options dialog in the language of the
\* page, as the table of texts has them.
RadioLabels(lang) ==
    { get_selector_by_language(lang, key) :
        key \in { k \in DOMAIN SELECTORS_BY_KEY :
                    \E s \in {"deep_dive", "summary", "critique", "debate"} :
                        k = radio_key(s) } }

\* generate with a style of the API or none, in a dialog that shows its
\* radios or none of them. What the call asked and met is on record from
\* its submit on.
GenerateStyled ==
    /\ pc = "idle"
    /\ dom.nextId <= MaxArtifacts
    /\ \E style \in AudioStyle \cup {None} :
       \E radios \in {{}, RadioLabels(auto.lang)} :
       \E fail \in {"none", "click"} :
        LET in == [ edit |-> "icon", style |-> style_control(style, auto.lang, radios),
                    language |-> "unset", duration |-> "unset", prompt |-> "unset",
                    button |-> "named", fail |-> fail ]
            r == generate_submit(dom, in)
            seen == [NoAudioObs EXCEPT !.style = style, !.control = in.style,
                                       !.radios = radios]
        IN  /\ dom' = r.d
            /\ IF r.raised
               THEN /\ pc' = "idle"
                    /\ frame' = Idle
                    /\ aobs' = [seen EXCEPT !.op = "generate", !.raised = TRUE,
                                    !.injected = (fail # "none"), !.created = r.created]
               ELSE /\ pc' = "gen_wait"
                    /\ frame' = [op |-> "generate", created |-> r.created,
                                 early |-> dom.containers, bare |-> Bare(in),
                                 options |-> NoOptions]
                    /\ aobs' = [seen EXCEPT !.created = r.created]
    /\ UNCHANGED files
    /\ UNCHANGED svars

NextStyle ==
    \/ GenerateStyled
    \/ GenerateWait
    \/ GenerateReturn
    \/ Materialize
    \/ ContainerRender
    \/ TabAway

InitStyle == InitLooks

SpecStyle == InitStyle /\ [][NextStyle]_vars

\* C22: generate with a style whose radio is absent from the options dialog
\* fails: the submit control is not clicked, no generation is started and no
\* job id is returned.
C22_MissingStyleRadioFails ==
    (aobs.control = "missing")
        => /\ aobs.op = "generate" /\ aobs.raised
           /\ aobs.created = NoItem
           /\ aobs.result = <<>>
           /\ pc = "idle"

C22_Witness ==
    /\ aobs.op = "generate" /\ aobs.raised
    /\ aobs.style = "debate" /\ aobs.radios = {} /\ aobs.control = "missing"
    /\ dom.dialog /\ dom.pending = {}

\* C23: each style the API accepts has a text for its radio in every
\* language of the session, and generate finds the radio of that style in a
\* dialog that shows the radios.
C23_EveryStyleHasItsRadio ==
    aobs.style \in AudioStyle
        => /\ get_selector_by_language(auto.lang, radio_key(aobs.style)) # None
           /\ aobs.radios # {} => (aobs.control = "clicked" /\ ~(aobs.raised /\ ~aobs.injected))

\* ------------------------------------------------ audio: the panel switch

\* _ensure_studio_tab on its own, as the debug endpoint calls it. present:
\* the artifact list was there before the call; same: the call left the
\* page as it was.
EnsureStudioTab ==
    /\ pc = "idle"
    /\ \E fail \in {"none", "panel"} :
        LET r == ensure_studio_tab(dom, fail)
        IN  /\ dom' = r.d
            /\ aobs' = [NoAudioObs EXCEPT !.op = "ensure_studio_tab", !.raised = r.raised,
                            !.injected = (fail # "none"), !.present = dom.library,
                            !.pressed = r.pressed, !.same = (r.d = dom)]
    /\ UNCHANGED <<files, pc, frame>>
    /\ UNCHANGED svars

NextTab ==
    \/ EnsureStudioTab
    \/ TabAway
    \/ ForeignArtifact
    \/ Progress

InitTab ==
    /\ InitSessionIdle
    /\ dom \in InitDom \cup { [d EXCEPT !.tabs = "both"] : d \in InitDom }
    /\ files = {}
    /\ pc = "idle"
    /\ frame = Idle
    /\ aobs = NoAudioObs

SpecTab == InitTab /\ [][NextTab]_vars

\* C26: _ensure_studio_tab clicks nothing and changes nothing when the
\* artifact list is present; otherwise it clicks at most one panel-switch
\* control, the tab strip's when there is one, the plain text only when
\* there is none; and on a page whose artifact list is present a call of it
\* changes nothing.
C26_PanelSwitchIdempotent ==
    /\ (aobs.op = "ensure_studio_tab" /\ ~aobs.raised)
        => /\ aobs.present => (aobs.pressed = <<>> /\ aobs.same)
           /\ Len(aobs.pressed) <= 1
           /\ (~aobs.present /\ dom.tabs \in {"strip", "both"}) => aobs.pressed = <<"strip">>
           /\ (~aobs.present /\ dom.tabs = "text") => aobs.pressed = <<"text">>
           /\ (~aobs.present /\ dom.tabs = "none") => (aobs.pressed = <<>> /\ aobs.same)
    /\ dom.library
        => ensure_studio_tab(dom, "none")
             = [d |-> dom, raised |-> FALSE, via |-> "none", pressed |-> <<>>]

C26_Witness ==
    /\ aobs.op = "ensure_studio_tab" /\ ~aobs.raised
    /\ ~aobs.present /\ dom.tabs = "both"
    /\ aobs.pressed = <<"strip">>
    /\ dom.library

\* ------------------------------------------- session: the language detected

\* connect() with nothing failing, whatever the language attribute reads.
ConnectReading ==
    \E in \in ConnectInputs(world.ws, {}, LangReads, {"target"}) :
        Commit(connect(Session(StartObs("connect")), in))

NextLanguage ==
    \/ ConnectReading
    \/ Close
    \/ PageClosed

SpecLanguage == InitSession /\ [][NextLanguage]_vars

\* The language an attribute stands for: he for he... and iw..., zh for
\* zh..., ja for ja..., en for anything else, for an empty or missing
\* attribute and for one that cannot be read.
LanguageOf(read) ==
    IF read.kind # "value" THEN "en"
    ELSE IF startswith(read.v, <<"h", "e">>) \/ startswith(read.v, <<"i", "w">>) THEN "he"
    ELSE IF startswith(read.v, <<"z", "h">>) THEN "zh"
    ELSE IF startswith(read.v, <<"j", "a">>) THEN "ja"
    ELSE "en"

\* C28: after each connect that reads the language attribute, the first and
\* every later one, the session language is in {en, he, zh, ja} and is the
\* one the attribute stands for: en when the attribute is unrecognised,
\* empty, missing or unreadable, whatever was detected before.
C28_LanguageFollowsAttribute ==
    /\ auto.lang \in Langs
    /\ (sobs.op = "connect" /\ sobs.read.kind # "unread")
        => auto.lang = LanguageOf(sobs.read)

\* C36: a network-idle wait that times out during connect() is no failure:
\* connect goes on to detect the language and to build the managers,
\* returns with a page that is open, and tears nothing down.
C36_IdleTimeoutNotFatal ==
    sobs.idleTimeout
        => /\ ~sobs.raised
           /\ auto.page # NoPage /\ world.pages[auto.page].status = "open"
           /\ sobs.navigated /\ sobs.newPage
           /\ sobs.read.kind # "unread"
           /\ auto.source_manager = auto.page /\ auto.audio_manager = auto.page
           /\ sobs.connectCalls = 1
                  => (sobs.attempted = {} /\ sobs.terminateCalls = 0 /\ ~sobs.connectFailed)

C36_Witness ==
    /\ sobs.op = "connect" /\ sobs.idleTimeout /\ ~sobs.raised
    /\ sobs.preStatus = "closed"
    /\ sobs.read.kind = "value" /\ auto.lang = "he"
    /\ world.pages[auto.page].status = "open"

\* C37: after a connect() that succeeded the session's page shows the
\* target notebook: a page that is adopted without being navigated already
\* showed the target.
C37_PageShowsTarget ==
    (sobs.op = "connect" /\ ~sobs.raised)
        => /\ world.pages[auto.page].url = "target"
           /\ sobs.reused => ~sobs.navigated

\* ------------------------------------- session: the automator's operations

\* automator.py:310-403: the public operations, each with the calls it makes
\* on its managers once ensure_connected has returned.
manager_calls ==
    [ add_sources |-> <<"source_manager.add_sources">>,
      clear_sources |-> <<"source_manager.clear_sources">>,
      generate_audio |-> <<"audio_manager.generate">>,
      get_audio_status |-> <<"audio_manager.get_status">>,
      get_download_url |-> <<"audio_manager.get_download_url">>,
      download_audio_file |-> <<"audio_manager.download_file">>,
      clear_studio |-> <<"source_manager.close_dialog", "audio_manager.clear_studio">> ]

\* One public operation, as far as the session goes: the calls it makes, in
\* order. ensures = FALSE is the operation without its first line.
public_operationWith(s, name, in1, in2, ensures) ==
    LET e == IF ensures
             THEN ensure_connected([s EXCEPT !.o.calls = <<"ensure_connected">>], in1, in2)
             ELSE s
    IN  IF e.o.raised THEN e
        ELSE [e EXCEPT !.o.calls = @ \o manager_calls[name]]

public_operationUnensured(s, name, in1, in2) ==
    public_operationWith(s, name, in1, in2, FALSE)

public_operation(s, name, in1, in2) ==
    public_operationWith(s, name, in1, in2, TRUE)

\* What the connects of a public operation meet.
PublicInputs == ConnectInputs(world.ws, {"start", "goto"}, {Unread}, {"target"})

Public ==
    \E name \in DOMAIN manager_calls :
        LET s == Session(StartObs(name))
        IN  \E in1 \in IF ReachesFirst(s) THEN PublicInputs ELSE {NoConnect} :
                \E in2 \in IF ReachesSecond(s, in1) THEN PublicInputs ELSE {NoConnect} :
                    Commit(public_operation(s, name, in1, in2))

NextPublic ==
    \/ Public
    \/ Close
    \/ PageCrash
    \/ PageClosed
    \/ OpenTab

SpecPublic == InitSession /\ [][NextPublic]_vars

\* C25: each public operation of the automator, every time it is called,
\* calls ensure_connected first; it calls a manager only after
\* ensure_connected has returned, on managers that are bound to the page the
\* session holds, and calls none when ensure_connected raised.
C25_EnsureConnectedFirst ==
    sobs.op \in DOMAIN manager_calls
        => /\ sobs.calls # <<>> /\ sobs.calls[1] = "ensure_connected"
           /\ \A i \in 2..Len(sobs.calls) : sobs.calls[i] # "ensure_connected"
           /\ IF sobs.raised THEN sobs.calls = <<"ensure_connected">>
              ELSE /\ sobs.calls = <<"ensure_connected">> \o manager_calls[sobs.op]
                   /\ auto.page # NoPage
                   /\ auto.source_manager = auto.page /\ auto.audio_manager = auto.page

C25_Witness ==
    /\ sobs.op = "clear_studio" /\ ~sobs.raised
    /\ sobs.preStatus = "closed"
    /\ sobs.connectCalls = 1
    /\ sobs.calls = <<"ensure_connected", "source_manager.close_dialog",
                      "audio_manager.clear_studio">>

\* ------------------------------------------------- texts: the lookup alone

\* The language codes and the keys the lookup is given: the codes the
\* session settles on, the alias, codes the table does not have, and every
\* key of the table with keys it does not have.
TextLanguages == {"en", "he", "zh", "ja", "iw", "fr", ""}

TextKeys == DOMAIN SELECTORS_BY_KEY \cup {"criticism_radio_button", "nonexistent_key", ""}

GetText ==
    /\ pc = "get_text"
    /\ pc' = "idle"
    /\ frame' = Idle
    /\ aobs' = [NoAudioObs EXCEPT !.op = "get_selector_by_language",
                    !.language = frame.language, !.key = frame.key,
                    !.text = get_selector_by_language(frame.language, frame.key)]
    /\ UNCHANGED <<dom, files>>
    /\ UNCHANGED svars

NextText == GetText

InitText ==
    /\ InitSessionIdle
    /\ dom \in InitDom
    /\ files = {}
    /\ pc = "get_text"
    /\ frame \in [op : {"get_selector_by_language"}, language : TextLanguages, key : TextKeys]
    /\ aobs = NoAudioObs

SpecText == InitText /\ [][NextText]_vars

\* C27: get_selector_by_language(lang, key) takes iw for he, returns the
\* text of that language when it has the key, the English text when the
\* language is not in the table or lacks the key, and None only when English
\* lacks the key as well.
C27_TextByLanguageThenEnglish ==
    aobs.op = "get_selector_by_language"
        => LET code == IF aobs.language = "iw" THEN "he" ELSE aobs.language
               known == aobs.key \in DOMAIN SELECTORS_BY_KEY
               texts == SELECTORS_BY_KEY[aobs.key]
           IN  /\ (known /\ code \in DOMAIN texts) => aobs.text = texts[code]
               /\ (known /\ code \notin DOMAIN texts /\ "en" \in DOMAIN texts)
                      => aobs.text = texts["en"]
               /\ aobs.text = None <=> ~(known /\ "en" \in DOMAIN texts)

C27_Witness ==
    /\ aobs.op = "get_selector_by_language"
    /\ aobs.language = "iw" /\ aobs.key = "add_source_button"
    /\ aobs.text = "he:add sources"
    /\ get_selector_by_language("fr", "add_source_button") = "Add sources"

\* ------------------------------------------- operations that must not raise

\* C24: add_sources, clear_sources, clear_studio and get_download_url return
\* their result and never raise, whichever lookup or interaction of the
\* page fails during the call.
C24_OperationsNeverRaise ==
    aobs.op \in {"add_sources", "clear_sources", "clear_studio", "get_download_url"}
        => ~aobs.raised

\* ------------------------------------------- session: the Chrome process

\* A handle is 1 while its process runs and 2 once it has exited. held is
\* the manager as the call found it.
ChromeObs(name) == [StartObs(name) EXCEPT !.held = chrome]

\* Lines 128-134: the outcomes of ensure_running in which subprocess.Popen
\* is called and its handle stored over the handle held.
Launches(er) == er \in {"launched", "timeout"}

\* ensure_running called on the manager. orphaned: the handle Popen wrote
\* over was of a process still running.
EnsureRunning ==
    /\ ~world.ws
    /\ \E er \in EnsureRunningOutcomes :
        LET r == ensure_running(Session(ChromeObs("ensure_running")), er)
        IN  Commit([r EXCEPT !.o.orphaned = Launches(er) /\ chrome.chrome_process = 1])

Terminate ==
    Commit(terminate(Session(ChromeObs("terminate"))))

\* The Chrome the manager launched exits (the user quits it, or it crashes).
ChromeExits ==
    /\ chrome.chrome_process = 1
    /\ chrome' = [chrome EXCEPT !.chrome_process = 2]
    /\ sobs' = NoObs
    /\ UNCHANGED <<auto, world>>
    /\ UNCHANGED avars

NextChrome ==
    \/ EnsureRunning
    \/ Terminate
    \/ ChromeExits
    \/ Connect
    \/ Close
    \/ PageClosed

InitChromeManager == InitSession /\ ~world.ws

SpecChrome == InitChromeManager /\ [][NextChrome]_vars

\* C31: terminate ends only a process the manager launched (it changes
\* nothing when the manager holds no process or did not start it) and then
\* leaves no handle and _started_browser false; and whenever ensure_running
\* has raised, no process the manager launched is left running or tracked.
C31_NoProcessLeftBehind ==
    /\ sobs.op = "terminate"
            => chrome = IF sobs.held.chrome_process # 0 /\ sobs.held.started_browser
                        THEN InitChrome ELSE sobs.held
    /\ (sobs.op = "ensure_running" /\ sobs.raised)
            => (chrome = InitChrome /\ ~sobs.orphaned)

\* ---------------------------------------------------- api: audio endpoints

\* Lines 288-314 of get_download_url: what follows its start st. captured is
\* the URL the interceptor holds when the loop is left ("none": the deadline
\* passed); fail = "wait" is a wait of the loop raising.
get_download_url_rest(st, fail, captured, closeFails) ==
    LET fin == get_download_url_finish(st.d, captured, closeFails)
    IN  IF st.next = "raise" THEN [d |-> st.d, raised |-> TRUE, url |-> "none"]
        ELSE IF st.next = "return" THEN [d |-> st.d, raised |-> FALSE, url |-> "none"]
        ELSE IF fail = "wait" THEN [d |-> unroute(st.d), raised |-> TRUE, url |-> "none"]
        ELSE [d |-> fin.d, raised |-> FALSE, url |-> fin.url]

\* get_download_url from its call to its return.
get_download_url_call(d0, job, play, fail, captured, closeFails) ==
    get_download_url_rest(get_download_url_start(d0, job, play, fail),
                          fail, captured, closeFails)

\* Lines 380-433 of download_file: what follows its start st. now is the
\* directory as the loop finds it.
download_file_rest(st, fs, now, removeFails) ==
    LET found == new_downloads(now, st.before)
        f == CHOOSE x \in found : TRUE
    IN  IF st.next = "raise" THEN [d |-> st.d, fs |-> fs, raised |-> TRUE, file |-> NoFile]
        ELSE IF st.next = "return"
        THEN [d |-> st.d, fs |-> fs, raised |-> FALSE, file |-> NoFile]
        ELSE IF found = {} THEN [d |-> st.d, fs |-> now, raised |-> FALSE, file |-> NoFile]
        ELSE [d |-> st.d, fs |-> IF removeFails THEN now ELSE remove_downloaded(now, f.name),
              raised |-> FALSE, file |-> f.name]

\* download_file from its call to its return. arrives: the browser writes
\* the file while the loop waits; removeFails: os.remove raises.
download_file_call(d0, fs, job, more, menu, listFails, fail, arrives, removeFails) ==
    download_file_rest(
        download_file_start(d0, fs, job, more, menu, listFails, fail), fs,
        IF arrives /\ FinalName \notin listdir(fs)
        THEN fs \cup {[name |-> FinalName, kind |-> "file", size |-> 1]} ELSE fs,
        removeFails)

\* The response: its status code (500 also for an exception that leaves the
\* handler), the download_url or url of its body, the operations called on
\* the automator, and same: the page and the download directory are as
\* get_audio_status left them.
Response(st, d, fs0, fs, code, url, calls) ==
    [ d |-> d, fs |-> fs, code |-> code, status |-> st.status, url |-> url,
      calls |-> <<"get_audio_status">> \o calls, same |-> (d = st.d /\ fs = fs0) ]

\* Lines 224-232, 242-255 and 274-331: the handlers after get_audio_status
\* has returned st. cap and dl are what get_download_url and
\* download_audio_file do if called; ws: BROWSER_WS_ENDPOINT is set.
\* gated = FALSE is the handler without its test of the status.
respond(path, st, cap, dl, fs, ws, http, gated) ==
    IF st.raised THEN Response(st, st.d, fs, fs, 500, "none", <<>>)
    ELSE IF gated /\ st.status # "completed"
    THEN Response(st, st.d, fs, fs, IF path = "/audio/status" THEN 200 ELSE 400, "none", <<>>)
    ELSE IF path = "/audio/download" /\ ~ws
    THEN Response(st, dl.d, fs, dl.fs, IF dl.raised \/ dl.file = NoFile THEN 500 ELSE 200,
                  "none", <<"download_audio_file">>)
    ELSE Response(st, cap.d, fs, fs,
                  IF cap.raised THEN 500
                  ELSE IF path = "/audio/status" THEN 200
                  ELSE IF cap.url = "none" THEN 500
                  ELSE IF path = "/audio/download" /\ ~http THEN 500
                  ELSE 200,
                  cap.url, <<"get_download_url">>)

\* routes.py:215-331: the three endpoints of a job.
endpointWith(path, d0, fs, ws, job, in, gated) ==
    respond(path, get_status(d0, job, in.sfail),
            get_download_url_call(get_status(d0, job, in.sfail).d, job, in.play, in.ufail,
                                  in.captured, in.closeFails),
            download_file_call(get_status(d0, job, in.sfail).d, fs, job, in.more, in.menu,
                               in.listFails, in.dfail, in.arrives, in.removeFails),
            fs, ws, in.http, gated)

endpointUngated(path, d0, fs, ws, job, in) ==
    endpointWith(path, d0, fs, ws, job, in, FALSE)

endpoint(path, d0, fs, ws, job, in) ==
    endpointWith(path, d0, fs, ws, job, in, TRUE)

\* What a request meets: everything works, or one thing does not.
Smooth ==
    [ sfail |-> "none", play |-> TRUE, ufail |-> "none", captured |-> "u1",
      closeFails |-> FALSE, http |-> TRUE, more |-> TRUE, menu |-> TRUE,
      listFails |-> FALSE, dfail |-> "none", arrives |-> TRUE, removeFails |-> FALSE ]

EndpointCases ==
    { Smooth,
      [Smooth EXCEPT !.sfail = "text"], [Smooth EXCEPT !.play = FALSE],
      [Smooth EXCEPT !.ufail = "wait"], [Smooth EXCEPT !.captured = "none"],
      [Smooth EXCEPT !.closeFails = TRUE], [Smooth EXCEPT !.http = FALSE],
      [Smooth EXCEPT !.menu = FALSE], [Smooth EXCEPT !.arrives = FALSE],
      [Smooth EXCEPT !.removeFails = TRUE] }

EndpointJobIds == { <<"x">>, <<"1">>, <<"2">>, <<"3">> }

Endpoint(path) ==
    /\ pc = "idle"
    /\ aobs.op = "none"
    /\ \E job \in EndpointJobIds : \E in \in EndpointCases :
        LET r == endpoint(path, dom, files, world.ws, job, in)
        IN  /\ dom' = r.d
            /\ files' = r.fs
            /\ aobs' = [NoAudioObs EXCEPT !.op = path, !.job = job, !.status = r.status,
                            !.code = r.code, !.url = r.url, !.calls = r.calls,
                            !.same = r.same]
    /\ UNCHANGED <<pc, frame>>
    /\ UNCHANGED svars

check_audio_status == Endpoint("/audio/status")

get_audio_download_url == Endpoint("/audio/file")

download_audio_file == Endpoint("/audio/download")

\* The response has been sent.
Responded ==
    /\ pc = "idle"
    /\ aobs.op \in {"/audio/status", "/audio/file", "/audio/download"}
    /\ aobs' = Stale
    /\ UNCHANGED <<dom, files, pc, frame>>
    /\ UNCHANGED svars

NextRoutes ==
    \/ check_audio_status
    \/ get_audio_download_url
    \/ download_audio_file
    \/ Responded
    \/ ForeignArtifact
    \/ Progress
    \/ TabAway

\* get_automator has connected the session: its page is open.
InitRoutes ==
    /\ InitAudio
    /\ dom.tabs \in {"full", "strip"}
    /\ \E ws \in BOOLEAN :
        LET s == [ a |-> InitAuto, c |-> InitChrome,
                   w |-> [ws |-> ws, pages |-> <<>>], o |-> NoObs ]
            r == connect(s, NoConnect)
        IN  /\ auto = r.a
            /\ chrome = r.c
            /\ world = r.w
    /\ sobs = NoObs

SpecRoutes == InitRoutes /\ [][NextRoutes]_vars

\* C29: the status endpoint calls get_download_url only when
\* get_audio_status reported 'completed', and otherwise answers with a null
\* download_url; /audio/file and /audio/download answer 400 when the status
\* reported is not 'completed', and then capture and download nothing.
C29_CaptureOnlyWhenCompleted ==
    /\ (aobs.op = "/audio/status" /\ (\E i \in DOMAIN aobs.calls : aobs.calls[i] = "get_download_url"))
            => aobs.status = "completed"
    /\ (aobs.op \in {"/audio/status", "/audio/file", "/audio/download"}
            /\ aobs.status \in {"generating", "failed", "unknown"})
        => /\ aobs.calls = <<"get_audio_status">>
           /\ aobs.url = "none"
           /\ aobs.same
           /\ aobs.code = IF aobs.op = "/audio/status" THEN 200 ELSE 400

C29_Witness ==
    /\ aobs.op = "/audio/download"
    /\ aobs.status = "generating"
    /\ aobs.job = <<"2">>
    /\ aobs.code = 400
    /\ Len(dom.artifacts) = 2

\* C30: when the status endpoint finds the job still 'generating', it closes
\* the automator's page.
C30_GeneratingClosesPage ==
    (aobs.op = "/audio/status" /\ aobs.status = "generating")
        => is_closed(world, auto.page)

\* ------------------------------------- audio: the directory of a download

\* audio.py:332: os.environ.get("DOWNLOAD_DIR", "/tmp/shared-downloads")
download_dir(configured) ==
    IF configured = "unset" THEN "/tmp/shared-downloads" ELSE configured

\* The values DOWNLOAD_DIR is given.
DownloadDirs == {"unset", "/tmp/shared-downloads", "/data/downloads"}

\* download_file under a configured directory, from its call to its return.
\* files is what the directory it lists holds; the browser's file arrives
\* there only when that is where the browser saves.
DownloadFileInto ==
    /\ pc = "idle"
    /\ aobs.op = "none"
    /\ \E configured \in DownloadDirs : \E job \in FileJobIds : \E in \in FileCases :
       \E arrives \in BOOLEAN :
        LET st == download_file_start(dom, files, job, in[1], in[2], in[3], in[4])
            watched == download_dir(configured)
            r == download_file_call(dom, files, job, in[1], in[2], in[3], in[4],
                                    arrives /\ st.d.saveTo = watched, FALSE)
        IN  /\ dom' = r.d
            /\ files' = r.fs
            /\ aobs' = [NoAudioObs EXCEPT !.op = "download_file", !.job = job,
                            !.raised = r.raised, !.injected = (in[4] # "none"),
                            !.file = r.file, !.watched = watched,
                            !.saved = r.d.saveTo,
                            !.control = IF st.next = "poll" THEN "clicked" ELSE ""]
    /\ UNCHANGED <<pc, frame>>
    /\ UNCHANGED svars

\* The caller has read what download_file returned.
FileTaken ==
    /\ pc = "idle"
    /\ aobs.op = "download_file"
    /\ aobs' = Stale
    /\ UNCHANGED <<dom, files, pc, frame>>
    /\ UNCHANGED svars

NextDirectory ==
    \/ DownloadFileInto
    \/ FileTaken
    \/ ForeignArtifact
    \/ Progress
    \/ TabAway

SpecDirectory == InitFile /\ [][NextDirectory]_vars

\* C33: whatever DOWNLOAD_DIR is set to, the directory download_file has
\* the browser save into, once it has clicked the download entry, is the
\* directory it listed before the click and lists while it waits.
C33_SavesWhereItWatches ==
    (aobs.op = "download_file" /\ aobs.control = "clicked")
        => aobs.saved = aobs.watched

\* ------------------------------------------- audio: generate with options

\* The languages asked for, the options the selector renders, the durations
\* of the API, and the toggles of the dialog in the language of the page.
AskedLanguages == {None, "English", "Klingon"}
RenderedOptions == {"English", "Deutsch"}
AudioDuration == {"short", "default"}
ToggleLabels(lang) ==
    { get_selector_by_language(lang, "duration_" \o duration) : duration \in AudioDuration }

\* generate with a language and a duration, or without, in a dialog that
\* shows its toggles or none. What the call asked and met is on record.
GenerateWithOptions ==
    /\ pc = "idle"
    /\ dom.nextId <= MaxArtifacts
    /\ \E language \in AskedLanguages :
       \E trigger \in IF language = "English" THEN BOOLEAN ELSE {TRUE} :
       \E duration \in AudioDuration \cup {None} :
       \E toggles \in {{}, ToggleLabels(auto.lang)} :
       \E fail \in {"none", "click"} :
        LET in == [ edit |-> "icon", style |-> "unset",
                    language |-> language_control(language, trigger, RenderedOptions),
                    duration |-> duration_control(duration, auto.lang, toggles),
                    prompt |-> "unset", button |-> "named", fail |-> fail ]
            r == generate_submit(dom, in)
            met == [option |-> in.language, toggle |-> in.duration, esc |-> r.esc,
                    warned |-> r.warned]
        IN  /\ dom' = r.d
            /\ IF r.raised
               THEN /\ pc' = "idle"
                    /\ frame' = Idle
                    /\ aobs' = [NoAudioObs EXCEPT !.op = "generate", !.raised = TRUE,
                                    !.injected = (fail # "none"),
                                    !.option = met.option, !.toggle = met.toggle,
                                    !.esc = met.esc, !.warned = met.warned]
               ELSE /\ pc' = "gen_wait"
                    /\ frame' = [op |-> "generate", created |-> r.created,
                                 early |-> dom.containers, bare |-> Bare(in),
                                 options |-> met]
                    /\ aobs' = NoAudioObs
    /\ UNCHANGED files
    /\ UNCHANGED svars

NextOptions ==
    \/ GenerateWithOptions
    \/ GenerateWait
    \/ GenerateReturn
    \/ Materialize
    \/ ContainerRender
    \/ TabAway

InitOptions ==
    /\ InitLooks
    /\ dom.tabs \in {"full", "strip"}
    /\ auto.lang \in {"en", "he"}

SpecOptions == InitOptions /\ [][NextOptions]_vars

\* C34: generate given a language that is not among the rendered options,
\* or a duration whose toggle is not found, skips that option (Escape
\* pressed on the selector, or a warning logged), clicks the submit control
\* all the same and returns a job id (no page call failing).
C34_MissingOptionSkipped ==
    /\ (pc # "idle" /\ (frame.options.option = "not_listed" \/ frame.options.toggle = "missing"))
        => /\ frame.created # NoItem
           /\ frame.options.esc <=> frame.options.option = "not_listed"
           /\ frame.options.warned <=> frame.options.toggle = "missing"
    /\ (pc = "idle" /\ aobs.op = "generate" /\ ~aobs.injected
            /\ (aobs.option = "not_listed" \/ aobs.toggle = "missing"))
        => /\ ~aobs.raised
           /\ aobs.created # NoItem
           /\ aobs.result = DecStr(dom.containers)
           /\ aobs.esc <=> aobs.option = "not_listed"
           /\ aobs.warned <=> aobs.toggle = "missing"

C34_Witness ==
    /\ pc = "idle" /\ aobs.op = "generate" /\ ~aobs.raised
    /\ aobs.option = "not_listed" /\ aobs.toggle = "missing"
    /\ aobs.esc /\ aobs.warned
    /\ aobs.created # NoItem /\ aobs.result = DecStr(dom.containers)

\* ------------------------------------- session: the page and its managers

\* Public is ensure_connected() followed by the call of a manager.
NextLifecycle ==
    \/ Connect
    \/ Public
    \/ Close
    \/ PageCrash
    \/ PageClosed

SpecLifecycle == InitSession /\ [][NextLifecycle]_vars

\* C39: between operations either the page and both managers are null, or
\* both managers are bound to the page the automator holds now.
C39_ManagersFollowPage ==
    \/ /\ auto.page = NoPage
       /\ auto.source_manager = NoPage /\ auto.audio_manager = NoPage
    \/ /\ auto.page # NoPage
       /\ auto.source_manager = auto.page /\ auto.audio_manager = auto.page

C39_Witness ==
    /\ sobs.op \in {"connect", "ensure_connected", "public"} /\ ~sobs.raised
    /\ sobs.pre.page # NoPage /\ sobs.pre.source_manager = sobs.pre.page
    /\ auto.page # NoPage /\ auto.page # sobs.pre.page
    /\ auto.source_manager = auto.page /\ auto.audio_manager = auto.page

\* ------------------------------------- audio: a download that arrives late

\* The artifact whose audio the browser is seen to download; the clicks for
\* the other artifacts start nothing within the time observed.
SlowJob == <<"1">>

LateJobIds == { <<"1">>, <<"2">> }

\* download_file called for one of two artifacts, with the item's more
\* button and the download entry visible.
DownloadFileFor ==
    /\ pc = "idle"
    /\ aobs.op = "none"
    /\ \E job \in LateJobIds :
        LET r == download_file_start(dom, files, job, TRUE, TRUE, FALSE, "none")
        IN  /\ dom' = r.d
            /\ IF r.next = "poll"
               THEN /\ pc' = "file_poll"
                    /\ frame' = [op |-> "download_file", job |-> job, before |-> r.before,
                                 began |-> listdir(files), found |-> NoFile, elapsed |-> 0]
                    /\ aobs' = NoAudioObs
               ELSE /\ pc' = "idle"
                    /\ frame' = Idle
                    /\ aobs' = [NoAudioObs EXCEPT !.op = "download_file", !.job = job,
                                    !.raised = (r.next = "raise")]
    /\ UNCHANGED files
    /\ UNCHANGED svars

\* audio.py line 378: download_menu.click() makes the browser start writing
\* the audio into the download directory under its partial name.
DownloadBegins ==
    /\ pc = "file_poll"
    /\ frame.job = SlowJob
    /\ listdir(files) = {}
    /\ files' = {[name |-> PartialName, kind |-> "file", size |-> 1]}
    /\ UNCHANGED <<dom, pc, frame, aobs>>
    /\ UNCHANGED svars

NextLate ==
    \/ DownloadFileFor
    \/ DownloadFilePoll
    \/ DownloadFileReturn
    \/ FileTaken
    \/ DownloadBegins
    \/ DownloadCompletes
    \/ ForeignArtifact

SpecLate == InitFile /\ [][NextLate]_vars

\* C40: the file download_file(job) returns was produced by the click of
\* that call: where only the audio of one artifact is ever downloaded, a
\* call for another artifact returns no file.
C40_OwnDownloadReturned ==
    (aobs.op = "download_file" /\ aobs.file # NoFile) => aobs.job = SlowJob

\* ------------------------------------------ the deadlines of the waits

\* browser.py lines 93-134: the endpoint is not there, a binary is found and
\* Chrome is launched; the wait for the debugging port begins.
EnsureRunningLaunch ==
    /\ pc = "idle"
    /\ ~world.ws
    /\ chrome' = [chrome_process |-> 1, started_browser |-> TRUE]
    /\ pc' = "port_wait"
    /\ frame' = [op |-> "ensure_running", elapsed |-> 0]
    /\ sobs' = NoObs
    /\ UNCHANGED <<auto, world, dom, files, aobs>>

\* browser.py lines 136-137: time.time() < deadline, with the deadline set
\* once before the loop. elapsed counts the rounds slept so far; unbounded
\* is the loop with no deadline.
deadline_passedWith(elapsed, bounded) == bounded /\ elapsed >= MaxPolls

deadline_never(elapsed) == deadline_passedWith(elapsed, FALSE)

deadline_passed(elapsed) == deadline_passedWith(elapsed, TRUE)

\* Lines 137-141: one round of the wait: the port is not there yet and the
\* round sleeps, or the port is there and ensure_running returns.
EnsureRunningWait ==
    /\ pc = "port_wait"
    /\ ~deadline_passed(frame.elapsed)
    /\ \/ /\ frame' = [frame EXCEPT !.elapsed = IF @ < MaxPolls THEN @ + 1 ELSE @]
          /\ UNCHANGED <<pc, chrome, sobs>>
       \/ /\ pc' = "idle"
          /\ frame' = Idle
          /\ sobs' = [NoObs EXCEPT !.op = "ensure_running"]
          /\ UNCHANGED chrome
    /\ UNCHANGED <<auto, world, dom, files, aobs>>

\* Lines 143-147: the deadline has passed: terminate() and RuntimeError.
EnsureRunningExpire ==
    /\ pc = "port_wait"
    /\ deadline_passed(frame.elapsed)
    /\ LET r == terminate(Session([NoObs EXCEPT !.op = "ensure_running", !.raised = TRUE]))
       IN  /\ chrome' = r.c
           /\ sobs' = r.o
    /\ pc' = "idle"
    /\ frame' = Idle
    /\ UNCHANGED <<auto, world, dom, files, aobs>>

NextDeadlines ==
    \/ GetDownloadUrl
    \/ UrlTaken
    \/ Request
    \/ GetDownloadUrlPoll
    \/ GetDownloadUrlReturn
    \/ DownloadFile
    \/ DownloadFilePoll
    \/ DownloadFileReturn
    \/ FileTaken
    \/ DownloadCompletes
    \/ EnsureRunningLaunch
    \/ EnsureRunningWait
    \/ EnsureRunningExpire

\* The notebook lists one artifact; the download directory is empty or holds
\* a download still being written.
InitDeadlines ==
    /\ \E d \in InitDom :
          /\ d.tabs = "full"
          /\ dom = [d EXCEPT !.artifacts = <<[id |-> 1, look |-> GeneratingLook]>>,
                             !.nextId = 2]
    /\ files \in {{}, {[name |-> PartialName, kind |-> "file", size |-> 1]}}
    /\ pc = "idle"
    /\ frame = Idle
    /\ aobs = NoAudioObs
    /\ InitSessionIdle

\* The thread that runs a wait keeps running: a round that neither finds
\* what it waits for nor raises is followed by the next test of the deadline,
\* and a loop that is left is followed by the rest of the function.
SpecDeadlines ==
    /\ InitDeadlines
    /\ [][NextDeadlines]_vars
    /\ WF_vars(GetDownloadUrlPoll /\ pc' = pc)
    /\ WF_vars(GetDownloadUrlReturn)
    /\ WF_vars(DownloadFilePoll)
    /\ WF_vars(DownloadFileReturn)
    /\ WF_vars(EnsureRunningWait /\ pc' = pc)
    /\ WF_vars(EnsureRunningExpire)

\* C38: every wait ends: a call that is in one of the three polling loops
\* leaves it, and the step that leaves a loop with nothing found returns
\* absence (get_download_url, download_file) or raises with the launched
\* process terminated (ensure_running).
C38_WaitsEnd ==
    /\ (pc \in {"url_poll", "file_poll", "port_wait"}) ~> (pc = "idle")
    /\ [][ /\ (pc = "url_poll" /\ pc' = "idle" /\ frame.captured = "none" /\ ~aobs'.raised)
              => (frame.elapsed >= MaxPolls /\ aobs'.url = "none")
           /\ (pc = "file_poll" /\ pc' = "idle" /\ frame.found = NoFile)
              => (frame.elapsed >= MaxPolls /\ aobs'.file = NoFile)
           /\ (pc = "port_wait" /\ pc' = "idle" /\ frame.elapsed >= MaxPolls)
              => (sobs'.raised /\ chrome' = InitChrome) ]_vars

C38_Witness ==
    /\ pc = "idle"
    /\ sobs.op = "ensure_running" /\ sobs.raised /\ chrome = InitChrome
    /\ aobs.op = "get_download_url" /\ aobs.routed /\ ~aobs.raised
    /\ aobs.url = "none" /\ aobs.captured = "none"

====
